---------------------------- MODULE Spec2Model ----------------------------
(***************************************************************************)
(* TransFLUENCE: Ableton Live (.als) -> FL Studio (.flp) converter.        *)
(*                                                                         *)
(* Conventions of this development:                                        *)
(*  - a Python str is the sequence of its code points; a bytes value is a  *)
(*    sequence of numbers in 0..255;                                       *)
(*  - a Python float is an exact rational [n |-> numerator, d |-> denom];  *)
(*    every float the model draws has a power-of-two denominator, so the   *)
(*    float arithmetic of the code is exact on it;                         *)
(*  - an Optional[T] is a sequence of length 0 (None) or 1;                *)
(*  - a call that can raise returns [err |-> name of the exception or "",  *)
(*    val |-> the value returned when err = ""].                           *)
(***************************************************************************)
EXTENDS Integers, Sequences, FiniteSets, TLC

VARIABLES
    pc,         \* position of the operation being run
    transproj,  \* the TransProj being written (core/transproj.py)
    data,       \* FLStudioWriter._build_flp_binary: the event stream appended to `data`
    header,     \* FLStudioWriter._build_flp_binary: the FLhd header fields
    idx,        \* _build_flp_binary: index of the next track of the channel loop
    track_idx,  \* _build_flp_binary: index of the next track of the pattern loop
    clip_idx,   \* _build_flp_binary: index of the next clip of that track
    pattern_count,   \* _build_flp_binary: patterns written so far
    playlist_items,  \* _build_flp_binary: playlist items collected so far
    self_ppq,   \* FLStudioWriter.ppq
    error,      \* name of the exception that ended the operation, "" if none
    input,      \* the arguments of the operation under check
    output,     \* its result; the bytes _build_flp_binary returns
    files,      \* the file system: a set of <<path, content>>
    filepath,   \* convert_file: output_file; FLStudioWriter.write: filepath
    use_pyflp,  \* FLStudioWriter.use_pyflp
    result,     \* convert_file: the value returned, None before the return
    ptrack,     \* AbletonParser._parse_track: the Track `track` being filled
    clip_source \* history: the clip element each entry of ptrack.clips was parsed from

vars == <<pc, transproj, data, header, idx, track_idx, clip_idx,
          pattern_count, playlist_items, self_ppq, error, input, output,
          files, filepath, use_pyflp, result, ptrack, clip_source>>

\* the state of convert_file around the writer
conv == <<files, filepath, use_pyflp, result>>

\* the state of AbletonParser._parse_track
parser == <<ptrack, clip_source>>

-----------------------------------------------------------------------------
(* Python values *)

None == <<>>
Some(x) == <<x>>

Ok(v) == [err |-> "", val |-> v]
Raise(e) == [err |-> e, val |-> <<>>]

Rat(n, d) == [n |-> n, d |-> d]
RatAdd(a, b) == Rat(a.n * b.d + b.n * a.d, a.d * b.d)
RatMulInt(a, k) == Rat(a.n * k, a.d)
RatDivInt(a, k) == Rat(a.n, a.d * k)
RatGt(a, b) == a.n * b.d > b.n * a.d

\* int(x) of a float: truncation toward zero
int(a) == IF a.n >= 0 THEN a.n \div a.d ELSE -((-a.n) \div a.d)

RatZero == Rat(0, 1)
RatHalf == Rat(1, 2)
RatOne == Rat(1, 1)

\* x.to_bytes / struct.pack: little-endian unsigned of `width` bytes
RECURSIVE LittleEndian(_, _)
LittleEndian(v, width) ==
    IF width = 0 THEN <<>> ELSE <<v % 256>> \o LittleEndian(v \div 256, width - 1)

\* struct.pack('<H', v): 2 bytes, struct.error outside 0..65535
PackH(v) == LittleEndian(v, 2)
CanPackH(v) == v >= 0 /\ v <= 65535
\* struct.pack('<I', v): 4 bytes (values of the model stay below 2^31)
PackI(v) == LittleEndian(v, 4)
CanPackI(v) == v >= 0

\* bytearray.append(v): ValueError outside 0..255
IsByte(v) == v >= 0 /\ v <= 255

RECURSIVE Log2Floor(_)
Log2Floor(n) == IF n <= 1 THEN 0 ELSE 1 + Log2Floor(n \div 2)

\* struct.pack('<f', x) of a float that a binary32 holds exactly
\* (|numerator| < 2^24, denominator a power of two)
PackF(x) ==
    IF x.n = 0 THEN <<0, 0, 0, 0>>
    ELSE LET mag  == IF x.n < 0 THEN -x.n ELSE x.n
             p    == Log2Floor(mag)
             e    == p - Log2Floor(x.d) + 127
             mant == (mag - 2^p) * 2^(23 - p)
             sign == IF x.n < 0 THEN 128 ELSE 0
         IN  <<mant % 256, (mant \div 256) % 256,
               (e % 2) * 128 + (mant \div 65536), sign + (e \div 2)>>

\* str.encode('utf-8') of one code point (below U+0800)
Utf8Char(c) == IF c < 128 THEN <<c>> ELSE <<192 + (c \div 64), 128 + (c % 64)>>
\* str.encode('utf-16le') of one code point of the basic plane
Utf16leChar(c) == <<c % 256, c \div 256>>

RECURSIVE EncodeUtf8(_)
EncodeUtf8(text) ==
    IF text = <<>> THEN <<>> ELSE Utf8Char(Head(text)) \o EncodeUtf8(Tail(text))

RECURSIVE EncodeUtf16le(_)
EncodeUtf16le(text) ==
    IF text = <<>> THEN <<>> ELSE Utf16leChar(Head(text)) \o EncodeUtf16le(Tail(text))

\* str(n) of an integer n >= 0
RECURSIVE Str(_)
Str(n) == IF n < 10 THEN <<48 + n>> ELSE Str(n \div 10) \o <<48 + (n % 10)>>

\* dict as a set of <<key, value>> pairs with distinct keys
DictHas(dict, k) == \E p \in dict : p[1] = k
DictGet(dict, k, default) ==
    IF DictHas(dict, k) THEN (CHOOSE p \in dict : p[1] = k)[2] ELSE default

Min(a, b) == IF a < b THEN a ELSE b
Max(a, b) == IF a > b THEN a ELSE b

RECURSIVE Flatten(_)
Flatten(seqs) == IF seqs = <<>> THEN <<>> ELSE Head(seqs) \o Flatten(Tail(seqs))

-----------------------------------------------------------------------------
(* core/transproj.py: the intermediate project model *)

Note(position, duration, key, velocity) ==
    [position |-> position, duration |-> duration, key |-> key, velocity |-> velocity]

\* Note.to_ticks
to_ticks(note, ppq) ==
    <<int(RatMulInt(note.position, ppq)), int(RatMulInt(note.duration, ppq))>>

Clip(name, start, duration, notes, audio_path, is_midi, scene_index) ==
    [name |-> name, start |-> start, duration |-> duration, notes |-> notes,
     audio_path |-> audio_path, is_midi |-> is_midi, scene_index |-> scene_index]

is_session_clip(clip) == clip.scene_index # None

Plugin(name, manufacturer, is_instrument, device_type, parameters) ==
    [name |-> name, manufacturer |-> manufacturer, is_instrument |-> is_instrument,
     device_type |-> device_type, parameters |-> parameters]

DrumPad(index, name, sample_path, midi_note, volume, pan) ==
    [index |-> index, name |-> name, sample_path |-> sample_path,
     midi_note |-> midi_note, volume |-> volume, pan |-> pan]

Rack(name, rack_type, plugins, drum_pads) ==
    [name |-> name, rack_type |-> rack_type, plugins |-> plugins, drum_pads |-> drum_pads]

is_drum_rack(rack) == Len(rack.drum_pads) > 0

Track(name, volume, pan, clips, instrument, effects, racks) ==
    [name |-> name, volume |-> volume, pan |-> pan, clips |-> clips,
     instrument |-> instrument, effects |-> effects, racks |-> racks]

has_midi(track) == \E i \in 1..Len(track.clips) : track.clips[i].is_midi
has_audio(track) == \E i \in 1..Len(track.clips) : ~track.clips[i].is_midi

TransProj(name, tempo, ppq, tracks) ==
    [name |-> name, tempo |-> tempo, ppq |-> ppq, tracks |-> tracks]

-----------------------------------------------------------------------------
(* converters/plugin_mapper.py *)

\* Native Ableton instruments -> FL Studio
ABLETON_TO_FL_INSTRUMENTS ==
      \* 'OriginalSimpler': 'Sampler'
    { <<<<79, 114, 105, 103, 105, 110, 97, 108, 83, 105, 109, 112, 108, 101, 114>>,
        <<83, 97, 109, 112, 108, 101, 114>>>>,
      \* 'MultiSampler': 'DirectWave'
      <<<<77, 117, 108, 116, 105, 83, 97, 109, 112, 108, 101, 114>>,
        <<68, 105, 114, 101, 99, 116, 87, 97, 118, 101>>>>,
      \* 'Operator': '3xOsc'
      <<<<79, 112, 101, 114, 97, 116, 111, 114>>,
        <<51, 120, 79, 115, 99>>>>,
      \* 'Analog': 'Sytrus'
      <<<<65, 110, 97, 108, 111, 103>>,
        <<83, 121, 116, 114, 117, 115>>>>,
      \* 'Electric': '3xOsc'
      <<<<69, 108, 101, 99, 116, 114, 105, 99>>,
        <<51, 120, 79, 115, 99>>>>,
      \* 'Collision': 'FPC'
      <<<<67, 111, 108, 108, 105, 115, 105, 111, 110>>,
        <<70, 80, 67>>>>,
      \* 'Tension': 'Sytrus'
      <<<<84, 101, 110, 115, 105, 111, 110>>,
        <<83, 121, 116, 114, 117, 115>>>>,
      \* 'Wavetable': 'Harmor'
      <<<<87, 97, 118, 101, 116, 97, 98, 108, 101>>,
        <<72, 97, 114, 109, 111, 114>>>>,
      \* 'DrumSynth': 'FPC'
      <<<<68, 114, 117, 109, 83, 121, 110, 116, 104>>,
        <<70, 80, 67>>>>,
      \* 'InstrumentGroupDevice': 'Patcher'
      <<<<73, 110, 115, 116, 114, 117, 109, 101, 110, 116, 71, 114, 111, 117, 112, 68, 101, 118, 105, 99, 101>>,
        <<80, 97, 116, 99, 104, 101, 114>>>> }

\* Ableton effects -> FL Studio effects
ABLETON_TO_FL_EFFECTS ==
      \* 'AutoFilter': 'Fruity Love Philter'
    { <<<<65, 117, 116, 111, 70, 105, 108, 116, 101, 114>>,
        <<70, 114, 117, 105, 116, 121, 32, 76, 111, 118, 101, 32, 80, 104, 105, 108, 116, 101, 114>>>>,
      \* 'AutoPan': 'Fruity Stereo Enhancer'
      <<<<65, 117, 116, 111, 80, 97, 110>>,
        <<70, 114, 117, 105, 116, 121, 32, 83, 116, 101, 114, 101, 111, 32, 69, 110, 104, 97, 110, 99, 101, 114>>>>,
      \* 'BeatRepeat': 'Fruity Slicer'
      <<<<66, 101, 97, 116, 82, 101, 112, 101, 97, 116>>,
        <<70, 114, 117, 105, 116, 121, 32, 83, 108, 105, 99, 101, 114>>>>,
      \* 'Cabinet': 'Fruity Guitar Amp'
      <<<<67, 97, 98, 105, 110, 101, 116>>,
        <<70, 114, 117, 105, 116, 121, 32, 71, 117, 105, 116, 97, 114, 32, 65, 109, 112>>>>,
      \* 'Chorus': 'Fruity Chorus'
      <<<<67, 104, 111, 114, 117, 115>>,
        <<70, 114, 117, 105, 116, 121, 32, 67, 104, 111, 114, 117, 115>>>>,
      \* 'Compressor': 'Fruity Compressor'
      <<<<67, 111, 109, 112, 114, 101, 115, 115, 111, 114>>,
        <<70, 114, 117, 105, 116, 121, 32, 67, 111, 109, 112, 114, 101, 115, 115, 111, 114>>>>,
      \* 'Delay': 'Fruity Delay 3'
      <<<<68, 101, 108, 97, 121>>,
        <<70, 114, 117, 105, 116, 121, 32, 68, 101, 108, 97, 121, 32, 51>>>>,
      \* 'Distortion': 'Fruity Fast Dist'
      <<<<68, 105, 115, 116, 111, 114, 116, 105, 111, 110>>,
        <<70, 114, 117, 105, 116, 121, 32, 70, 97, 115, 116, 32, 68, 105, 115, 116>>>>,
      \* 'Echo': 'Fruity Delay 3'
      <<<<69, 99, 104, 111>>,
        <<70, 114, 117, 105, 116, 121, 32, 68, 101, 108, 97, 121, 32, 51>>>>,
      \* 'Eq8': 'Fruity Parametric EQ 2'
      <<<<69, 113, 56>>,
        <<70, 114, 117, 105, 116, 121, 32, 80, 97, 114, 97, 109, 101, 116, 114, 105, 99, 32, 69, 81, 32, 50>>>>,
      \* 'EQ Eight': 'Fruity Parametric EQ 2'
      <<<<69, 81, 32, 69, 105, 103, 104, 116>>,
        <<70, 114, 117, 105, 116, 121, 32, 80, 97, 114, 97, 109, 101, 116, 114, 105, 99, 32, 69, 81, 32, 50>>>>,
      \* 'Erosion': 'Fruity Bitcrusher'
      <<<<69, 114, 111, 115, 105, 111, 110>>,
        <<70, 114, 117, 105, 116, 121, 32, 66, 105, 116, 99, 114, 117, 115, 104, 101, 114>>>>,
      \* 'FilterDelay': 'Fruity Delay 3'
      <<<<70, 105, 108, 116, 101, 114, 68, 101, 108, 97, 121>>,
        <<70, 114, 117, 105, 116, 121, 32, 68, 101, 108, 97, 121, 32, 51>>>>,
      \* 'Flanger': 'Fruity Flanger'
      <<<<70, 108, 97, 110, 103, 101, 114>>,
        <<70, 114, 117, 105, 116, 121, 32, 70, 108, 97, 110, 103, 101, 114>>>>,
      \* 'GlueCompressor': 'Fruity Limiter'
      <<<<71, 108, 117, 101, 67, 111, 109, 112, 114, 101, 115, 115, 111, 114>>,
        <<70, 114, 117, 105, 116, 121, 32, 76, 105, 109, 105, 116, 101, 114>>>>,
      \* 'Glue Compressor': 'Fruity Limiter'
      <<<<71, 108, 117, 101, 32, 67, 111, 109, 112, 114, 101, 115, 115, 111, 114>>,
        <<70, 114, 117, 105, 116, 121, 32, 76, 105, 109, 105, 116, 101, 114>>>>,
      \* 'GrainDelay': 'Fruity Granulizer'
      <<<<71, 114, 97, 105, 110, 68, 101, 108, 97, 121>>,
        <<70, 114, 117, 105, 116, 121, 32, 71, 114, 97, 110, 117, 108, 105, 122, 101, 114>>>>,
      \* 'Limiter': 'Fruity Limiter'
      <<<<76, 105, 109, 105, 116, 101, 114>>,
        <<70, 114, 117, 105, 116, 121, 32, 76, 105, 109, 105, 116, 101, 114>>>>,
      \* 'Looper': 'Fruity Slicer'
      <<<<76, 111, 111, 112, 101, 114>>,
        <<70, 114, 117, 105, 116, 121, 32, 83, 108, 105, 99, 101, 114>>>>,
      \* 'Overdrive': 'Fruity Fast Dist'
      <<<<79, 118, 101, 114, 100, 114, 105, 118, 101>>,
        <<70, 114, 117, 105, 116, 121, 32, 70, 97, 115, 116, 32, 68, 105, 115, 116>>>>,
      \* 'Phaser': 'Fruity Phaser'
      <<<<80, 104, 97, 115, 101, 114>>,
        <<70, 114, 117, 105, 116, 121, 32, 80, 104, 97, 115, 101, 114>>>>,
      \* 'PingPongDelay': 'Fruity Delay 3'
      <<<<80, 105, 110, 103, 80, 111, 110, 103, 68, 101, 108, 97, 121>>,
        <<70, 114, 117, 105, 116, 121, 32, 68, 101, 108, 97, 121, 32, 51>>>>,
      \* 'Redux': 'Fruity Bitcrusher'
      <<<<82, 101, 100, 117, 120>>,
        <<70, 114, 117, 105, 116, 121, 32, 66, 105, 116, 99, 114, 117, 115, 104, 101, 114>>>>,
      \* 'Reverb': 'Fruity Reeverb 2'
      <<<<82, 101, 118, 101, 114, 98>>,
        <<70, 114, 117, 105, 116, 121, 32, 82, 101, 101, 118, 101, 114, 98, 32, 50>>>>,
      \* 'Saturator': 'Fruity Waveshaper'
      <<<<83, 97, 116, 117, 114, 97, 116, 111, 114>>,
        <<70, 114, 117, 105, 116, 121, 32, 87, 97, 118, 101, 115, 104, 97, 112, 101, 114>>>>,
      \* 'SimpleDelay': 'Fruity Delay 3'
      <<<<83, 105, 109, 112, 108, 101, 68, 101, 108, 97, 121>>,
        <<70, 114, 117, 105, 116, 121, 32, 68, 101, 108, 97, 121, 32, 51>>>>,
      \* 'Utility': 'Fruity Balance'
      <<<<85, 116, 105, 108, 105, 116, 121>>,
        <<70, 114, 117, 105, 116, 121, 32, 66, 97, 108, 97, 110, 99, 101>>>>,
      \* 'Vocoder': 'Vocodex'
      <<<<86, 111, 99, 111, 100, 101, 114>>,
        <<86, 111, 99, 111, 100, 101, 120>>>>,
      \* 'DrumBuss': 'Maximus'
      <<<<68, 114, 117, 109, 66, 117, 115, 115>>,
        <<77, 97, 120, 105, 109, 117, 115>>>>,
      \* 'Drum Buss': 'Maximus'
      <<<<68, 114, 117, 109, 32, 66, 117, 115, 115>>,
        <<77, 97, 120, 105, 109, 117, 115>>>>,
      \* 'Roar': 'Distructor'
      <<<<82, 111, 97, 114>>,
        <<68, 105, 115, 116, 114, 117, 99, 116, 111, 114>>>>,
      \* 'AudioEffectGroupDevice': 'Patcher'
      <<<<65, 117, 100, 105, 111, 69, 102, 102, 101, 99, 116, 71, 114, 111, 117, 112, 68, 101, 118, 105, 99, 101>>,
        <<80, 97, 116, 99, 104, 101, 114>>>> }

\* Drum devices (checked first)
ABLETON_TO_FL_DRUMS ==
      \* 'DrumGroupDevice': 'FPC'
    { <<<<68, 114, 117, 109, 71, 114, 111, 117, 112, 68, 101, 118, 105, 99, 101>>,
        <<70, 80, 67>>>>,
      \* 'DrumSynth': 'FPC'
      <<<<68, 114, 117, 109, 83, 121, 110, 116, 104>>,
        <<70, 80, 67>>>> }

\* Parameter names, Ableton -> FL Studio (a key given twice in the source keeps its last value)
PARAMETER_MAPPINGS ==
      \* 'Volume': 'Volume'
    { <<<<86, 111, 108, 117, 109, 101>>,
        <<86, 111, 108, 117, 109, 101>>>>,
      \* 'Level': 'Level'
      <<<<76, 101, 118, 101, 108>>,
        <<76, 101, 118, 101, 108>>>>,
      \* 'Gain': 'Gain'
      <<<<71, 97, 105, 110>>,
        <<71, 97, 105, 110>>>>,
      \* 'Output': 'Out'
      <<<<79, 117, 116, 112, 117, 116>>,
        <<79, 117, 116>>>>,
      \* 'FilterFreq': 'CutOff'
      <<<<70, 105, 108, 116, 101, 114, 70, 114, 101, 113>>,
        <<67, 117, 116, 79, 102, 102>>>>,
      \* 'Frequency': 'Frequency'
      <<<<70, 114, 101, 113, 117, 101, 110, 99, 121>>,
        <<70, 114, 101, 113, 117, 101, 110, 99, 121>>>>,
      \* 'Cutoff': 'Cutoff'
      <<<<67, 117, 116, 111, 102, 102>>,
        <<67, 117, 116, 111, 102, 102>>>>,
      \* 'FilterRes': 'Resonance'
      <<<<70, 105, 108, 116, 101, 114, 82, 101, 115>>,
        <<82, 101, 115, 111, 110, 97, 110, 99, 101>>>>,
      \* 'Resonance': 'Resonance'
      <<<<82, 101, 115, 111, 110, 97, 110, 99, 101>>,
        <<82, 101, 115, 111, 110, 97, 110, 99, 101>>>>,
      \* 'FilterType': 'Type'
      <<<<70, 105, 108, 116, 101, 114, 84, 121, 112, 101>>,
        <<84, 121, 112, 101>>>>,
      \* 'Attack': 'ATT'
      <<<<65, 116, 116, 97, 99, 107>>,
        <<65, 84, 84>>>>,
      \* 'AttackTime': 'ATT'
      <<<<65, 116, 116, 97, 99, 107, 84, 105, 109, 101>>,
        <<65, 84, 84>>>>,
      \* 'Decay': 'DEC'
      <<<<68, 101, 99, 97, 121>>,
        <<68, 69, 67>>>>,
      \* 'DecayTime': 'Decay'
      <<<<68, 101, 99, 97, 121, 84, 105, 109, 101>>,
        <<68, 101, 99, 97, 121>>>>,
      \* 'Sustain': 'SUS'
      <<<<83, 117, 115, 116, 97, 105, 110>>,
        <<83, 85, 83>>>>,
      \* 'SustainLevel': 'SUS'
      <<<<83, 117, 115, 116, 97, 105, 110, 76, 101, 118, 101, 108>>,
        <<83, 85, 83>>>>,
      \* 'Release': 'REL'
      <<<<82, 101, 108, 101, 97, 115, 101>>,
        <<82, 69, 76>>>>,
      \* 'ReleaseTime': 'REL'
      <<<<82, 101, 108, 101, 97, 115, 101, 84, 105, 109, 101>>,
        <<82, 69, 76>>>>,
      \* 'LfoRate': 'Speed'
      <<<<76, 102, 111, 82, 97, 116, 101>>,
        <<83, 112, 101, 101, 100>>>>,
      \* 'LfoAmount': 'Depth'
      <<<<76, 102, 111, 65, 109, 111, 117, 110, 116>>,
        <<68, 101, 112, 116, 104>>>>,
      \* 'LfoWaveform': 'Shape'
      <<<<76, 102, 111, 87, 97, 118, 101, 102, 111, 114, 109>>,
        <<83, 104, 97, 112, 101>>>>,
      \* 'DryWet': 'Mix'
      <<<<68, 114, 121, 87, 101, 116>>,
        <<77, 105, 120>>>>,
      \* 'Mix': 'Mix'
      <<<<77, 105, 120>>,
        <<77, 105, 120>>>>,
      \* 'Blend': 'Mix'
      <<<<66, 108, 101, 110, 100>>,
        <<77, 105, 120>>>>,
      \* 'Feedback': 'Feedback'
      <<<<70, 101, 101, 100, 98, 97, 99, 107>>,
        <<70, 101, 101, 100, 98, 97, 99, 107>>>>,
      \* 'FeedbackAmount': 'Feedback'
      <<<<70, 101, 101, 100, 98, 97, 99, 107, 65, 109, 111, 117, 110, 116>>,
        <<70, 101, 101, 100, 98, 97, 99, 107>>>>,
      \* 'Rate': 'Rate'
      <<<<82, 97, 116, 101>>,
        <<82, 97, 116, 101>>>>,
      \* 'Speed': 'Speed'
      <<<<83, 112, 101, 101, 100>>,
        <<83, 112, 101, 101, 100>>>>,
      \* 'Depth': 'Depth'
      <<<<68, 101, 112, 116, 104>>,
        <<68, 101, 112, 116, 104>>>>,
      \* 'Amount': 'Amount'
      <<<<65, 109, 111, 117, 110, 116>>,
        <<65, 109, 111, 117, 110, 116>>>>,
      \* 'Intensity': 'Mod'
      <<<<73, 110, 116, 101, 110, 115, 105, 116, 121>>,
        <<77, 111, 100>>>>,
      \* 'DelayTime': 'Time'
      <<<<68, 101, 108, 97, 121, 84, 105, 109, 101>>,
        <<84, 105, 109, 101>>>>,
      \* 'Time': 'Time'
      <<<<84, 105, 109, 101>>,
        <<84, 105, 109, 101>>>>,
      \* 'DelayFeedback': 'Feedback'
      <<<<68, 101, 108, 97, 121, 70, 101, 101, 100, 98, 97, 99, 107>>,
        <<70, 101, 101, 100, 98, 97, 99, 107>>>>,
      \* 'Sync': 'Sync'
      <<<<83, 121, 110, 99>>,
        <<83, 121, 110, 99>>>>,
      \* 'RoomSize': 'Size'
      <<<<82, 111, 111, 109, 83, 105, 122, 101>>,
        <<83, 105, 122, 101>>>>,
      \* 'Size': 'Size'
      <<<<83, 105, 122, 101>>,
        <<83, 105, 122, 101>>>>,
      \* 'Damping': 'Damp'
      <<<<68, 97, 109, 112, 105, 110, 103>>,
        <<68, 97, 109, 112>>>>,
      \* 'HighDamp': 'Damp'
      <<<<72, 105, 103, 104, 68, 97, 109, 112>>,
        <<68, 97, 109, 112>>>>,
      \* 'PreDelay': 'PreDelay'
      <<<<80, 114, 101, 68, 101, 108, 97, 121>>,
        <<80, 114, 101, 68, 101, 108, 97, 121>>>>,
      \* 'Threshold': 'Threshold'
      <<<<84, 104, 114, 101, 115, 104, 111, 108, 100>>,
        <<84, 104, 114, 101, 115, 104, 111, 108, 100>>>>,
      \* 'Ratio': 'Ratio'
      <<<<82, 97, 116, 105, 111>>,
        <<82, 97, 116, 105, 111>>>>,
      \* 'Knee': 'Knee'
      <<<<75, 110, 101, 101>>,
        <<75, 110, 101, 101>>>>,
      \* 'MakeupGain': 'Gain'
      <<<<77, 97, 107, 101, 117, 112, 71, 97, 105, 110>>,
        <<71, 97, 105, 110>>>>,
      \* 'Freq': 'Freq'
      <<<<70, 114, 101, 113>>,
        <<70, 114, 101, 113>>>>,
      \* 'Q': 'Q'
      <<<<81>>,
        <<81>>>>,
      \* 'BandGain': 'Gain'
      <<<<66, 97, 110, 100, 71, 97, 105, 110>>,
        <<71, 97, 105, 110>>>>,
      \* 'Drive': 'Drive'
      <<<<68, 114, 105, 118, 101>>,
        <<68, 114, 105, 118, 101>>>>,
      \* 'Bias': 'Bias'
      <<<<66, 105, 97, 115>>,
        <<66, 105, 97, 115>>>>,
      \* 'Shape': 'Shape'
      <<<<83, 104, 97, 112, 101>>,
        <<83, 104, 97, 112, 101>>>> }

\* Parameter value ranges: <<name, <<able_min, able_max, fl_min, fl_max>>>>
PARAMETER_RANGES ==
    { <<<<86, 111, 108, 117, 109, 101>>, <<0, 1, 0, 100>>>>,   \* 'Volume'
      <<<<80, 97, 110>>, <<-1, 1, 0, 100>>>>,   \* 'Pan'
      <<<<70, 105, 108, 116, 101, 114, 70, 114, 101, 113>>, <<20, 20000, 0, 100>>>>,   \* 'FilterFreq'
      <<<<82, 101, 115, 111, 110, 97, 110, 99, 101>>, <<0, 1, 0, 100>>>>,   \* 'Resonance'
      <<<<68, 114, 121, 87, 101, 116>>, <<0, 1, 0, 100>>>>,   \* 'DryWet'
      <<<<65, 116, 116, 97, 99, 107>>, <<0, 5, 0, 100>>>>,   \* 'Attack'
      <<<<68, 101, 99, 97, 121>>, <<0, 5, 0, 100>>>>,   \* 'Decay'
      <<<<83, 117, 115, 116, 97, 105, 110>>, <<0, 1, 0, 100>>>>,   \* 'Sustain'
      <<<<82, 101, 108, 101, 97, 115, 101>>, <<0, 5, 0, 100>>>> }   \* 'Release'

S_Sampler == <<83, 97, 109, 112, 108, 101, 114>>                    \* 'Sampler'
S_3xOsc == <<51, 120, 79, 115, 99>>                                  \* '3xOsc'
S_FPC == <<70, 80, 67>>                                              \* 'FPC'
S_Sytrus == <<83, 121, 116, 114, 117, 115>>                          \* 'Sytrus'
S_volume == <<118, 111, 108, 117, 109, 101>>                         \* 'volume'
S_pan == <<112, 97, 110>>                                            \* 'pan'

\* faulty variant of ableton_to_fl: an unmapped effect gets its lookup key
ableton_to_fl_key(ableton_name, is_instrument, device_type) ==
    LET lookup_name == IF device_type # None /\ device_type[1] # <<>>
                       THEN device_type[1] ELSE ableton_name
    IN  IF DictHas(ABLETON_TO_FL_DRUMS, lookup_name)
        THEN DictGet(ABLETON_TO_FL_DRUMS, lookup_name, <<>>)
        ELSE IF is_instrument
        THEN DictGet(ABLETON_TO_FL_INSTRUMENTS, lookup_name, S_Sampler)
        ELSE DictGet(ABLETON_TO_FL_EFFECTS, lookup_name, lookup_name)

\* PluginMapper.ableton_to_fl; device_type is an Optional[str]
ableton_to_fl(ableton_name, is_instrument, device_type) ==
    LET lookup_name == IF device_type # None /\ device_type[1] # <<>>
                       THEN device_type[1] ELSE ableton_name
    IN  IF DictHas(ABLETON_TO_FL_DRUMS, lookup_name)
        THEN DictGet(ABLETON_TO_FL_DRUMS, lookup_name, <<>>)
        ELSE IF is_instrument
        THEN DictGet(ABLETON_TO_FL_INSTRUMENTS, lookup_name, S_Sampler)
        ELSE DictGet(ABLETON_TO_FL_EFFECTS, lookup_name, ableton_name)

\* PluginMapper.map_parameter_name
map_parameter_name(param_name) == DictGet(PARAMETER_MAPPINGS, param_name, param_name)

\* faulty variant of map_parameter_value: the source minimum is not subtracted
map_parameter_value_unshifted(param_name, ableton_value) ==
    IF ~DictHas(PARAMETER_RANGES, param_name) THEN ableton_value
    ELSE LET r == DictGet(PARAMETER_RANGES, param_name, <<>>)
             normalized == RatDivInt(ableton_value, r[2] - r[1])
         IN  RatAdd(Rat(r[3], 1), RatMulInt(normalized, r[4] - r[3]))

\* PluginMapper.map_parameter_value
map_parameter_value(param_name, ableton_value) ==
    IF ~DictHas(PARAMETER_RANGES, param_name) THEN ableton_value
    ELSE LET r == DictGet(PARAMETER_RANGES, param_name, <<>>)
             able_min == r[1]
             able_max == r[2]
             fl_min == r[3]
             fl_max == r[4]
             normalized == RatDivInt(RatAdd(ableton_value, Rat(-able_min, 1)),
                                     able_max - able_min)
         IN  RatAdd(Rat(fl_min, 1), RatMulInt(normalized, fl_max - fl_min))

-----------------------------------------------------------------------------
(* converters/plugin_state_generator.py *)

\* f(**kwargs): the keyword arguments are a record; a missing one takes its default
NoKwargs == <<>>
KwGet(kwargs, key, default) == IF key \in DOMAIN kwargs THEN kwargs[key] ELSE default

RECURSIVE GCD(_, _)
GCD(a, b) == IF b = 0 THEN a ELSE GCD(b, a % b)

\* the float in lowest terms, as struct.pack('<f') sees it
RatNorm(x) ==
    IF x.n = 0 THEN Rat(0, 1)
    ELSE LET g == GCD(IF x.n < 0 THEN -x.n ELSE x.n, x.d) IN Rat(x.n \div g, x.d \div g)

AllBytes(bytes) == \A i \in 1..Len(bytes) : IsByte(bytes[i])

\* int(value * 100): a one-byte percentage
Percent(value) == int(RatMulInt(value, 100))

\* PluginStateGenerator.generate_sampler_state
generate_sampler_state(sample_path, volume, pan) ==
    LET path_bytes == EncodeUtf8(sample_path)
        params == <<Percent(volume), Percent(pan)>>
    IN  IF ~AllBytes(params) THEN Raise("ValueError")
        ELSE Ok(<<83, 77, 80, 76>>                      \* b'SMPL'
                \o PackI(1)
                \o PackI(Len(path_bytes)) \o path_bytes
                \o params)

\* PluginStateGenerator.generate_3xosc_state
generate_3xosc_state(osc1_vol, osc1_wave, osc2_vol, osc3_vol) ==
    LET oscs == <<1, osc1_wave, Percent(osc1_vol), 64,
                  IF RatGt(osc2_vol, RatZero) THEN 1 ELSE 0, 0, Percent(osc2_vol), 64,
                  IF RatGt(osc3_vol, RatZero) THEN 1 ELSE 0, 0, Percent(osc3_vol), 64>>
    IN  IF ~AllBytes(oscs) THEN Raise("ValueError")
        ELSE Ok(<<51, 79, 83, 67>>                      \* b'3OSC'
                \o PackI(1)
                \o oscs)

\* FPC has 16 pads
FPC_PADS == 16

\* faulty variant of FpcPadRecord: a record of fixed size, the path left out
FpcPadRecordNoPath(pads, i) ==
    IF i < Len(pads) THEN <<1, 0, 0, 100, 50, 50>> ELSE <<0, 0, 0, 100, 100, 100>>

\* generate_fpc_state: the record of pad slot i (0-based), the loop body
FpcPadRecord(pads, i) ==
    IF i < Len(pads)
    THEN LET pad == pads[i + 1]
             path_bytes == EncodeUtf8(KwGet(pad, "sample_path", <<>>))
         IN  <<1>>
             \o PackH(Len(path_bytes)) \o path_bytes
             \o <<Percent(KwGet(pad, "volume", RatOne)),
                  Percent(KwGet(pad, "pan", RatHalf)),
                  Percent(KwGet(pad, "tune", RatHalf))>>
    ELSE <<0>> \o PackH(0) \o <<100, 100, 100>>         \* b'\x64\x64\x64'

\* faulty variant of generate_fpc_state: one record per pad that is supplied,
\* and the pad count not capped
generate_fpc_state_uncapped(pads) ==
    LET bytes == <<70, 80, 67, 32>> \o PackI(1) \o PackI(Len(pads))
                 \o Flatten([i \in 1..Max(Len(pads), FPC_PADS) |->
                                FpcPadRecord(pads, i - 1)])
    IN  [err |-> "", val |-> bytes]

\* PluginStateGenerator.generate_fpc_state
generate_fpc_state(pads) ==
    LET records == [i \in 1..FPC_PADS |-> FpcPadRecord(pads, i - 1)]
        bytes == <<70, 80, 67, 32>>                     \* b'FPC '
                 \o PackI(1)
                 \o PackI(Min(Len(pads), FPC_PADS))
                 \o Flatten(records)
    IN  IF ~AllBytes(bytes) THEN Raise("ValueError") ELSE Ok(bytes)

\* PluginStateGenerator.generate_fruity_compressor_state
generate_fruity_compressor_state(threshold, ratio, attack, release) ==
    LET params == <<Percent(threshold), Percent(ratio), Percent(attack),
                    Percent(release), 50, 0>>
    IN  IF ~AllBytes(params) THEN Raise("ValueError")
        ELSE Ok(<<67, 79, 77, 80>> \o PackI(1) \o params)       \* b'COMP'

\* PluginStateGenerator.generate_fruity_delay_state
generate_fruity_delay_state(time, feedback, mix) ==
    LET params == <<Percent(time), Percent(feedback), Percent(mix), 0, 0>>
    IN  IF ~AllBytes(params) THEN Raise("ValueError")
        ELSE Ok(<<68, 76, 89, 51>> \o PackI(1) \o params)       \* b'DLY3'

\* PluginStateGenerator.generate_fruity_reverb_state
generate_fruity_reverb_state(size, decay, mix) ==
    LET params == <<Percent(size), Percent(decay), Percent(mix), 50, 0>>
    IN  IF ~AllBytes(params) THEN Raise("ValueError")
        ELSE Ok(<<82, 69, 86, 50>> \o PackI(1) \o params)       \* b'REV2'

\* Fruity Parametric EQ 2 has 7 bands
EQ_BANDS == 7

\* PluginStateGenerator.generate_fruity_eq_state
generate_fruity_eq_state(bands) ==
    LET BandRecord(i) ==
            IF i < Len(bands)
            THEN LET band == bands[i + 1]
                 IN  <<1, Percent(KwGet(band, "freq", RatHalf)),
                       Percent(KwGet(band, "gain", RatHalf)),
                       Percent(KwGet(band, "q", RatHalf)),
                       KwGet(band, "type", 0)>>
            ELSE <<0, 50, 50, 50, 0>>                   \* b'\x00\x32\x32\x32\x00'
        bytes == <<80, 69, 81, 50>>                     \* b'PEQ2'
                 \o PackI(1)
                 \o PackI(Min(Len(bands), EQ_BANDS))
                 \o Flatten([i \in 1..EQ_BANDS |-> BandRecord(i - 1)])
    IN  IF ~AllBytes(bytes) THEN Raise("ValueError") ELSE Ok(bytes)

\* PluginStateGenerator.generate_generic_state; params is a dict in insertion
\* order: a sequence of <<name, value>> pairs
generate_generic_state(plugin_name, params) ==
    LET name_bytes == EncodeUtf8(plugin_name)
        ParamBytes(p) == LET param_bytes == EncodeUtf8(p[1])
                         IN  PackH(Len(param_bytes)) \o param_bytes
                             \o PackF(RatNorm(p[2]))
    IN  Ok(<<80, 76, 71, 78>>                           \* b'PLGN'
           \o PackI(1)
           \o PackH(Len(name_bytes)) \o name_bytes
           \o PackI(Len(params))
           \o Flatten([i \in 1..Len(params) |-> ParamBytes(params[i])]))

\* PluginStateFactory.GENERATORS: plugin name -> the generator's parameter
\* names and the ones without a default
GENERATORS ==
    { <<S_Sampler, [params |-> {"sample_path", "volume", "pan"}, required |-> {}]>>,
      <<S_3xOsc, [params |-> {"osc1_vol", "osc1_wave", "osc2_vol", "osc3_vol"},
                  required |-> {}]>>,
      <<S_FPC, [params |-> {"pads"}, required |-> {"pads"}]>> }

S_FruityCompressor ==       \* 'Fruity Compressor'
    <<70, 114, 117, 105, 116, 121, 32, 67, 111, 109, 112, 114, 101, 115, 115, 111, 114>>
S_FruityDelay3 ==           \* 'Fruity Delay 3'
    <<70, 114, 117, 105, 116, 121, 32, 68, 101, 108, 97, 121, 32, 51>>
S_FruityReeverb2 ==         \* 'Fruity Reeverb 2'
    <<70, 114, 117, 105, 116, 121, 32, 82, 101, 101, 118, 101, 114, 98, 32, 50>>
S_FruityParametricEQ2 ==    \* 'Fruity Parametric EQ 2'
    <<70, 114, 117, 105, 116, 121, 32, 80, 97, 114, 97, 109, 101, 116, 114, 105, 99,
      32, 69, 81, 32, 50>>

\* PluginStateFactory.EFFECTS
EFFECTS ==
    { <<S_FruityCompressor, [params |-> {"threshold", "ratio", "attack", "release"},
                             required |-> {}]>>,
      <<S_FruityDelay3, [params |-> {"time", "feedback", "mix"}, required |-> {}]>>,
      <<S_FruityReeverb2, [params |-> {"size", "decay", "mix"}, required |-> {}]>>,
      <<S_FruityParametricEQ2, [params |-> {"bands"}, required |-> {"bands"}]>> }

\* cls.GENERATORS[plugin_name](**kwargs) / cls.EFFECTS[plugin_name](**kwargs):
\* the call itself raises TypeError on a keyword the function does not take or
\* on a missing argument that has no default
CallGenerator(plugin_name, kwargs) ==
    CASE plugin_name = S_Sampler ->
            generate_sampler_state(KwGet(kwargs, "sample_path", <<>>),
                                   KwGet(kwargs, "volume", RatOne),
                                   KwGet(kwargs, "pan", RatHalf))
      [] plugin_name = S_3xOsc ->
            generate_3xosc_state(KwGet(kwargs, "osc1_vol", RatOne),
                                 KwGet(kwargs, "osc1_wave", 0),
                                 KwGet(kwargs, "osc2_vol", RatZero),
                                 KwGet(kwargs, "osc3_vol", RatZero))
      [] plugin_name = S_FPC -> generate_fpc_state(kwargs.pads)
      [] plugin_name = S_FruityCompressor ->
            generate_fruity_compressor_state(KwGet(kwargs, "threshold", RatHalf),
                                             KwGet(kwargs, "ratio", Rat(3, 10)),
                                             KwGet(kwargs, "attack", Rat(1, 10)),
                                             KwGet(kwargs, "release", Rat(3, 10)))
      [] plugin_name = S_FruityDelay3 ->
            generate_fruity_delay_state(KwGet(kwargs, "time", Rat(1, 4)),
                                        KwGet(kwargs, "feedback", RatHalf),
                                        KwGet(kwargs, "mix", RatHalf))
      [] plugin_name = S_FruityReeverb2 ->
            generate_fruity_reverb_state(KwGet(kwargs, "size", RatHalf),
                                         KwGet(kwargs, "decay", RatHalf),
                                         KwGet(kwargs, "mix", Rat(3, 10)))
      [] plugin_name = S_FruityParametricEQ2 -> generate_fruity_eq_state(kwargs.bands)

\* PluginStateFactory.generate
generate(plugin_name, kwargs) ==
    LET table == IF DictHas(GENERATORS, plugin_name) THEN GENERATORS ELSE EFFECTS
    IN  IF DictHas(GENERATORS, plugin_name) \/ DictHas(EFFECTS, plugin_name)
        THEN LET sig == DictGet(table, plugin_name, <<>>)
             IN  IF (DOMAIN kwargs) \subseteq sig.params
                    /\ sig.required \subseteq (DOMAIN kwargs)
                 THEN CallGenerator(plugin_name, kwargs)
                 ELSE Raise("TypeError")
        ELSE generate_generic_state(plugin_name, KwGet(kwargs, "params", <<>>))

-----------------------------------------------------------------------------
(* writers/flstudio_writer.py *)

\* FL Studio default PPQ (FLStudioWriter.__init__)
DEFAULT_PPQ == 960

\* FLP event ids used by the writer
EV_VOL == 33
EV_PAN == 34
EV_NEW_CHAN == 64
EV_NEW_PAT == 65
EV_TEMPO == 66
EV_PROJECT_ID == 156
EV_PAT_NAME == 193
EV_VERSION == 199
EV_CHAN_NAME == 203       \* also written as PATTERN_NOTES
EV_CHAN_PLUGIN == 205
EV_TITLE == 206
EV_PLAYLIST_ITEMS == 224

\* one event of the stream: data.append(tag) followed by the bytes of its payload
Event(tag, payload) == [tag |-> tag, payload |-> payload]

\* faulty variant of _write_varint: the continuation bit is never set
RECURSIVE _write_varint_no_flag(_)
_write_varint_no_flag(value) ==
    LET byte == value % 128
        rest == value \div 128
    IN  IF rest # 0 THEN <<byte>> \o _write_varint_no_flag(rest) ELSE <<byte>>

\* FLStudioWriter._write_varint: the bytes the loop appends (value >= 0)
RECURSIVE _write_varint(_)
_write_varint(value) ==
    LET byte == value % 128
        rest == value \div 128
    IN  IF rest # 0 THEN <<byte + 128>> \o _write_varint(rest) ELSE <<byte>>

\* FLStudioWriter._write_string (encoding='utf-8')
_write_string(text) ==
    LET text_bytes == EncodeUtf8(text)
    IN  _write_varint(Len(text_bytes)) \o text_bytes

\* FLStudioWriter._write_utf16le_string (include_null=True)
_write_utf16le_string(text) ==
    LET text_bytes == EncodeUtf16le(text) \o <<0, 0>>
    IN  _write_varint(Len(text_bytes)) \o text_bytes

\* next((c for c in track.clips if not c.is_midi and c.audio_path), None)
FirstAudioClip(track) ==
    LET hits == {i \in 1..Len(track.clips) :
                    ~track.clips[i].is_midi /\ track.clips[i].audio_path # <<>>}
    IN  IF hits = {} THEN None
        ELSE Some(track.clips[CHOOSE i \in hits : \A j \in hits : i <= j])

\* the pan keyword of the sampler: (track.pan + 1.0) / 2.0
SamplerPan(track) == RatDivInt(RatAdd(track.pan, RatOne), 2)

\* FLStudioWriter._generate_plugin_state
_generate_plugin_state(fl_plugin_name, track, is_instrument, params) ==
    LET audio_clip == FirstAudioClip(track)
        generic == generate(fl_plugin_name,
                       [params |-> IF params # <<>> THEN params
                                   ELSE <<<<S_volume, track.volume>>,
                                          <<S_pan, track.pan>>>>])
    IN  IF fl_plugin_name = S_Sampler
        THEN IF audio_clip # None
             THEN generate(S_Sampler, [sample_path |-> audio_clip[1].audio_path,
                                       volume |-> track.volume,
                                       pan |-> SamplerPan(track)])
             ELSE generic
        ELSE IF fl_plugin_name = S_3xOsc THEN generate(S_3xOsc, NoKwargs)
        ELSE IF fl_plugin_name = S_Sytrus
        THEN generate(S_Sytrus, [params |-> <<<<S_volume, track.volume>>>>])
        ELSE generic

\* FLStudioWriter._generate_drum_rack_state
_generate_drum_rack_state(rack) ==
    LET kept == SubSeq(rack.drum_pads, 1, Min(Len(rack.drum_pads), FPC_PADS))
        pads == [i \in 1..Len(kept) |->
                    [sample_path |-> kept[i].sample_path,
                     volume |-> kept[i].volume,
                     pan |-> kept[i].pan,
                     tune |-> RatHalf]]
    IN  generate(S_FPC, [pads |-> pads])

\* mapped[mapped_name] = mapped_value on a dict in insertion order
DictSet(dict, k, v) ==
    IF \E i \in 1..Len(dict) : dict[i][1] = k
    THEN [i \in 1..Len(dict) |-> IF dict[i][1] = k THEN <<k, v>> ELSE dict[i]]
    ELSE Append(dict, <<k, v>>)

RECURSIVE MapParams(_, _)
MapParams(parameters, mapped) ==
    IF parameters = <<>> THEN mapped
    ELSE LET p == Head(parameters)
         IN  MapParams(Tail(parameters),
                       DictSet(mapped, map_parameter_name(p[1]),
                               map_parameter_value(p[1], p[2])))

\* FLStudioWriter._map_plugin_params
_map_plugin_params(plugin) ==
    IF plugin.parameters = <<>> THEN <<<<S_volume, Rat(100, 1)>>>>
    ELSE MapParams(plugin.parameters, <<>>)

S_InstrumentGroupDevice ==      \* 'InstrumentGroupDevice'
    <<73, 110, 115, 116, 114, 117, 109, 101, 110, 116, 71, 114, 111, 117, 112,
      68, 101, 118, 105, 99, 101>>

\* faulty variant of _normalize_track_plugins: the test of track.instrument is
\* left out
_normalize_track_plugins_unguarded(track) ==
    LET hits == {i \in 1..Len(track.racks) :
                    /\ ~is_drum_rack(track.racks[i])
                    /\ track.racks[i].rack_type = Some(S_InstrumentGroupDevice)
                    /\ track.racks[i].plugins # <<>>}
    IN  IF hits = {} THEN track
        ELSE LET rack == track.racks[CHOOSE i \in hits : \A j \in hits : i <= j]
             IN  [track EXCEPT !.instrument = Some(rack.plugins[1]),
                               !.effects = @ \o Tail(rack.plugins)]

\* FLStudioWriter._normalize_track_plugins: the track after the call
_normalize_track_plugins(track) ==
    LET hits == {i \in 1..Len(track.racks) :
                    /\ ~is_drum_rack(track.racks[i])
                    /\ track.racks[i].rack_type = Some(S_InstrumentGroupDevice)
                    /\ track.racks[i].plugins # <<>>}
    IN  IF track.instrument # None \/ hits = {} THEN track
        ELSE LET rack == track.racks[CHOOSE i \in hits : \A j \in hits : i <= j]
             IN  [track EXCEPT !.instrument = Some(rack.plugins[1]),
                               !.effects = @ \o Tail(rack.plugins)]

\* the plugin-state event: written only if the state is non-empty
PluginEvent(plugin_state) ==
    IF Len(plugin_state) > 0
    THEN <<Event(EV_CHAN_PLUGIN, _write_varint(Len(plugin_state)) \o plugin_state)>>
    ELSE <<>>

\* faulty variant of the plugin state of a channel: the loop over the racks
\* has no break, and the branch for MIDI clips is tried after it
ChannelPluginStateNoBreak(track) ==
    LET drums == SelectSeq(track.racks, is_drum_rack)
        instrument == IF track.instrument # None
                      THEN <<_generate_plugin_state(
                                 ableton_to_fl(track.instrument[1].name, TRUE,
                                               track.instrument[1].device_type),
                                 track, TRUE, _map_plugin_params(track.instrument[1]))>>
                      ELSE <<>>
        states == instrument
                  \o [i \in 1..Len(drums) |-> _generate_drum_rack_state(drums[i])]
                  \o (IF has_midi(track) THEN <<generate(S_3xOsc, NoKwargs)>> ELSE <<>>)
        failed == {i \in 1..Len(states) : states[i].err # ""}
    IN  IF failed # {} THEN states[CHOOSE i \in failed : \A j \in failed : i <= j]
        ELSE Ok(Flatten([i \in 1..Len(states) |-> PluginEvent(states[i].val)]))

\* _write_channel, lines 182-247: the plugin/generator state of the channel;
\* the events it appends, or the exception of the encoder
ChannelPluginState(track) ==
    IF track.instrument # None
    THEN LET instrument == track.instrument[1]
             fl_plugin == ableton_to_fl(instrument.name, TRUE, instrument.device_type)
             plugin_params == _map_plugin_params(instrument)
             state == _generate_plugin_state(fl_plugin, track, TRUE, plugin_params)
         IN  IF state.err # "" THEN state ELSE Ok(PluginEvent(state.val))
    ELSE IF track.racks # <<>>
    THEN LET drums == {i \in 1..Len(track.racks) : is_drum_rack(track.racks[i])}
         IN  IF drums = {} THEN Ok(<<>>)
             ELSE LET rack == track.racks[CHOOSE i \in drums : \A j \in drums : i <= j]
                      state == _generate_drum_rack_state(rack)
                  IN  IF state.err # "" THEN state ELSE Ok(PluginEvent(state.val))
    ELSE IF has_audio(track)
    THEN LET audio_clip == FirstAudioClip(track)
         IN  IF audio_clip = None THEN Ok(<<>>)
             ELSE LET state == generate(S_Sampler,
                                   [sample_path |-> audio_clip[1].audio_path,
                                    volume |-> track.volume,
                                    pan |-> SamplerPan(track)])
                  IN  IF state.err # "" THEN state ELSE Ok(PluginEvent(state.val))
    ELSE IF has_midi(track)
    THEN LET state == generate(S_3xOsc, NoKwargs)
         IN  IF state.err # "" THEN state ELSE Ok(PluginEvent(state.val))
    ELSE Ok(<<>>)

\* FLStudioWriter._write_channel: the events appended for track `track` as
\* channel idx (0-based), or the exception raised
_write_channel(idx_, track) ==
    LET name_bytes == EncodeUtf16le(track.name) \o <<0, 0>>
        vol == Min(128, Max(0, int(RatMulInt(track.volume, 100))))
        pan == Min(128, Max(0, int(RatMulInt(RatAdd(track.pan, RatOne), 64))))
        plugin == ChannelPluginState(track)
    IN  IF ~CanPackH(idx_) THEN Raise("struct.error")
        ELSE IF plugin.err # "" THEN plugin
        ELSE Ok(<<Event(EV_NEW_CHAN, PackH(idx_)),
                  Event(EV_CHAN_NAME, _write_varint(Len(name_bytes)) \o name_bytes),
                  Event(EV_VOL, <<vol>>),
                  Event(EV_PAN, <<pan>>)>>
                \o plugin.val)

\* faulty variant of NoteBytes: the layout before PATCH 010, pan at byte 17
\* and velocity at byte 18
NoteBytesOldOffsets(note, track_idx_, ppq) ==
    LET ticks == to_ticks(note, ppq)
    IN  PackI(ticks[1]) \o PackH(0) \o PackH(track_idx_) \o PackI(ticks[2])
        \o <<note.key>> \o <<0, 0, 0, 0>> \o <<64>>
        \o <<int(RatMulInt(note.velocity, 127))>> \o <<0, 0, 0, 0, 0>>

\* _write_pattern, lines 394-413: the 24 bytes of one note
NoteBytes(note, track_idx_, ppq) ==
    LET ticks == to_ticks(note, ppq)
    IN  PackI(ticks[1])                                 \* 0-3: position
        \o PackH(0)                                     \* 4-5: flags
        \o PackH(track_idx_)                            \* 6-7: channel id
        \o PackI(ticks[2])                              \* 8-11: length
        \o <<note.key>>                                 \* 12: MIDI key
        \o <<0, 0, 0>>
        \o <<64>>                                       \* 16: pan
        \o <<int(RatMulInt(note.velocity, 127))>>       \* 17: velocity
        \o <<0, 0, 0, 0, 0, 0>>

NoteOk(note, track_idx_, ppq) ==
    LET ticks == to_ticks(note, ppq)
    IN  /\ CanPackI(ticks[1]) /\ CanPackI(ticks[2]) /\ CanPackH(track_idx_)
        /\ IsByte(note.key) /\ IsByte(int(RatMulInt(note.velocity, 127)))

S_Dash == <<32, 45, 32>>                                \* ' - '
S_DashScene == <<32, 45, 32, 83, 99, 101, 110, 101, 32>>    \* ' - Scene '

\* faulty variant of PatternStart: a zero-based pattern index
PatternStartZeroBased(pattern_idx) == [tag |-> 65, payload |-> PackH(pattern_idx)]

\* _write_pattern, lines 375-377: NEW_PAT with the one-based pattern index
PatternStart(pattern_idx) == Event(EV_NEW_PAT, PackH(pattern_idx + 1))

\* FLStudioWriter._write_pattern: the events appended for one MIDI clip, or the
\* exception raised
_write_pattern(pattern_idx, track_idx_, track_name, clip, ppq) ==
    LET pattern_name == IF is_session_clip(clip)
                        THEN track_name \o S_DashScene \o Str(clip.scene_index[1] + 1)
                        ELSE track_name \o S_Dash \o clip.name
        note_data == Flatten([i \in 1..Len(clip.notes) |->
                                 NoteBytes(clip.notes[i], track_idx_, ppq)])
    IN  IF ~CanPackH(pattern_idx + 1) THEN Raise("struct.error")
        ELSE IF \E i \in 1..Len(clip.notes) : ~NoteOk(clip.notes[i], track_idx_, ppq)
        THEN Raise("struct.error")
        ELSE Ok(<<PatternStart(pattern_idx),
                  Event(EV_PAT_NAME, _write_utf16le_string(pattern_name))>>
                \o (IF note_data # <<>>
                    THEN <<Event(EV_CHAN_NAME, _write_varint(Len(note_data)) \o note_data)>>
                    ELSE <<>>))

\* _build_flp_binary, lines 122-127: the playlist item of one written pattern
PlaylistItem(pattern_count_, track_idx_, clip, ppq) ==
    [pattern_id |-> pattern_count_ + 1,
     position |-> int(RatMulInt(clip.start, ppq)),
     length |-> int(RatMulInt(clip.duration, ppq)),
     track_idx |-> track_idx_]

\* faulty variant of _write_playlist: the length is written as it is
_write_playlist_raw_length(items) ==
    LET ItemBytes(item) == PackI(item.position) \o PackI(item.length)
                           \o PackI(item.pattern_id) \o PackI(item.track_idx)
                           \o PackI(0)
        clip_data == Flatten([i \in 1..Len(items) |-> ItemBytes(items[i])])
    IN  IF items = <<>> THEN Ok(<<>>)
        ELSE IF \E i \in 1..Len(items) :
                    ~CanPackI(items[i].position) \/ ~CanPackI(items[i].length)
        THEN Raise("struct.error")
        ELSE Ok(<<Event(EV_PLAYLIST_ITEMS, _write_varint(Len(clip_data)) \o clip_data)>>)

\* FLStudioWriter._write_playlist: the events appended, or the exception raised
_write_playlist(items) ==
    LET ItemBytes(item) == PackI(item.position) \o PackI(Max(1, item.length))
                           \o PackI(item.pattern_id) \o PackI(item.track_idx)
                           \o PackI(0)
        clip_data == Flatten([i \in 1..Len(items) |-> ItemBytes(items[i])])
    IN  IF items = <<>> THEN Ok(<<>>)
        ELSE IF \E i \in 1..Len(items) : ~CanPackI(items[i].position)
        THEN Raise("struct.error")
        ELSE Ok(<<Event(EV_PLAYLIST_ITEMS, _write_varint(Len(clip_data)) \o clip_data)>>)

S_Version == <<50, 49, 46, 48, 46, 51>>                 \* "21.0.3"

\* generic project id written with event 156
PROJECT_ID == 12345

\* faulty variant of GlobalEvents: the tempo event is left out
GlobalEventsNoTempo(project) ==
    <<Event(EV_VERSION, _write_string(S_Version)),
      Event(EV_PROJECT_ID, PackI(PROJECT_ID))>>

\* faulty variant of GlobalEvents: the tempo event comes before the project id
GlobalEventsTempoFirst(project) ==
    <<Event(EV_VERSION, _write_string(S_Version)),
      Event(EV_TEMPO, PackH(int(project.tempo))),
      Event(EV_PROJECT_ID, PackI(PROJECT_ID))>>
    \o (IF project.name # <<>>
        THEN <<Event(EV_TITLE, _write_utf16le_string(project.name))>>
        ELSE <<>>)

\* _build_flp_binary, lines 86-103: the global events
GlobalEvents(project) ==
    <<Event(EV_VERSION, _write_string(S_Version)),
      Event(EV_PROJECT_ID, PackI(PROJECT_ID)),
      Event(EV_TEMPO, PackH(int(project.tempo)))>>
    \o (IF project.name # <<>>
        THEN <<Event(EV_TITLE, _write_utf16le_string(project.name))>>
        ELSE <<>>)

RECURSIVE EventBytes(_)
EventBytes(events) ==
    IF events = <<>> THEN <<>>
    ELSE <<Head(events).tag>> \o Head(events).payload \o EventBytes(Tail(events))

\* faulty variant of FlpBytes: the FLdt size keeps its placeholder
FlpBytesUnpatched(header_, events) ==
    <<70, 76, 104, 100>>
    \o PackI(6) \o PackH(0) \o PackH(header_.channels) \o PackH(header_.ppq)
    \o <<70, 76, 100, 116>>
    \o PackI(0)
    \o EventBytes(events)

\* _build_flp_binary, lines 73-85 and 133-139: the bytes returned, with the
\* FLdt size back-patched
FlpBytes(header_, events) ==
    LET stream == EventBytes(events)
    IN  <<70, 76, 104, 100>>                            \* b'FLhd'
        \o PackI(6) \o PackH(0) \o PackH(header_.channels) \o PackH(header_.ppq)
        \o <<70, 76, 100, 116>>                         \* b'FLdt'
        \o PackI(Len(stream))
        \o stream

-----------------------------------------------------------------------------
(* pathlib.Path on normalized POSIX paths (no '//', no trailing '/') *)

Slash == 47     \* ord('/')
Dot == 46       \* ord('.')
S_flp == <<46, 102, 108, 112>>                          \* '.flp'

\* str.rfind(c) + 1: the last position of c in text, 0 if there is none
RFind(text, c) ==
    LET hits == {i \in 1..Len(text) : text[i] = c}
    IN  IF hits = {} THEN 0 ELSE CHOOSE i \in hits : \A j \in hits : j <= i

\* PurePath.name: the final path component
PathName(path) == SubSeq(path, RFind(path, Slash) + 1, Len(path))

\* PurePath.suffix: the final component's last suffix, '' if the dot is its
\* first or its last character
PathSuffix(path) ==
    LET name == PathName(path)
        i == RFind(name, Dot)
    IN  IF 1 < i /\ i < Len(name) THEN SubSeq(name, i, Len(name)) ELSE <<>>

\* PurePath.stem
PathStem(path) ==
    LET name == PathName(path)
    IN  SubSeq(name, 1, Len(name) - Len(PathSuffix(path)))

\* faulty variant of with_suffix: the suffix is appended, the old one is kept
with_suffix_appended(path, suffix) ==
    IF path = <<>> THEN [err |-> "ValueError", val |-> <<>>]
    ELSE [err |-> "", val |-> path \o suffix]

\* PurePath.with_suffix(suffix): ValueError on a path with an empty name
with_suffix(path, suffix) ==
    IF PathName(path) = <<>> THEN Raise("ValueError")
    ELSE Ok(SubSeq(path, 1, Len(path) - Len(PathSuffix(path))) \o suffix)

\* Path.exists on the files of the model; Path('') is the current directory
PathExists(fs, path) == path = <<>> \/ DictHas(fs, path)

\* the file system after open(path, 'wb') and f.write(content)
FileWrite(fs, path, content) ==
    {f \in fs : f[1] # path} \cup {<<path, content>>}

-----------------------------------------------------------------------------
(* Bounds and input sets *)

\* at most MaxTracks tracks, MaxClips clips in the whole project, MaxNotes
\* notes per clip
MaxTracks == 2
MaxClips == 3
MaxNotes == 1

S_Lead == <<76, 101, 97, 100>>                          \* 'Lead'
S_A == <<65>>                                           \* 'A'
S_Foo == <<70, 111, 111>>                               \* 'Foo'
S_Analog == <<65, 110, 97, 108, 111, 103>>              \* 'Analog'
S_KickWav == <<107, 46, 119, 97, 118>>                  \* 'k.wav'
S_Ableton == <<65, 98, 108, 101, 116, 111, 110>>        \* 'Ableton'

\* the i-th note of a clip (1-based): one beat apart, a half beat long
NoteAt(i) == Note(Rat(i - 1, 1), RatHalf, 59 + i, RatOne)

\* the clips a track is given: MIDI clips with 0..MaxNotes notes (arrangement
\* or session), audio clips with and without a sample path
MidiClips ==
    { Clip(S_A, RatZero, Rat(4, 1), [i \in 1..n |-> NoteAt(i)], <<>>, TRUE, scene) :
        n \in 0..MaxNotes, scene \in {None} }
AudioClips ==
    { Clip(S_A, RatZero, Rat(4, 1), <<>>, path, FALSE, None) : path \in {S_KickWav} }
ClipSet == MidiClips \cup AudioClips

\* the instruments a track of the project is given
InstrumentSet ==
    { Plugin(name, S_Ableton, TRUE, None, <<>>) : name \in {S_Foo} }

total_clips(tracks) ==
    IF tracks = <<>> THEN 0
    ELSE LET RECURSIVE Sum(_)
             Sum(i) == IF i = 0 THEN 0 ELSE Len(tracks[i].clips) + Sum(i - 1)
         IN  Sum(Len(tracks))

-----------------------------------------------------------------------------
(* The writer as a state machine: a TransProj is constructed, then           *)
(* FLStudioWriter._build_flp_binary runs over it one loop iteration at a    *)
(* time.                                                                    *)

Init ==
    /\ pc = "build"
    /\ transproj \in { TransProj(name, Rat(120, 1), 96, <<>>) : name \in {<<>>, S_Lead} }
    /\ self_ppq = DEFAULT_PPQ
    /\ data = <<>>
    /\ header = [channels |-> 0, ppq |-> 0]
    /\ idx = 0
    /\ track_idx = 0
    /\ clip_idx = 0
    /\ pattern_count = 0
    /\ playlist_items = <<>>
    /\ error = ""
    /\ input = <<>>
    /\ output = <<>>
    /\ files = {}
    /\ filepath = <<>>
    /\ use_pyflp = FALSE
    /\ result = None
    /\ ptrack = None
    /\ clip_source = <<>>

\* TransProj.add_track
add_track ==
    /\ pc = "build"
    /\ Len(transproj.tracks) < MaxTracks
    /\ \E name \in {S_Lead} :
          transproj' = [transproj EXCEPT !.tracks =
              Append(@, Track(name, RatOne, RatZero, <<>>, None, <<>>, <<>>))]
    /\ UNCHANGED <<pc, self_ppq, data, header, idx, track_idx, clip_idx, pattern_count,
                   playlist_items, error, input, output>>
    /\ UNCHANGED <<conv, parser>>

\* track.clips.append(clip) on the track added last
AppendClip ==
    /\ pc = "build"
    /\ transproj.tracks # <<>>
    /\ total_clips(transproj.tracks) < MaxClips
    /\ \E clip \in ClipSet :
          transproj' = [transproj EXCEPT !.tracks[Len(transproj.tracks)].clips =
                            Append(@, clip)]
    /\ UNCHANGED <<pc, self_ppq, data, header, idx, track_idx, clip_idx, pattern_count,
                   playlist_items, error, input, output>>
    /\ UNCHANGED <<conv, parser>>

\* track.instrument = plugin on the track added last
SetInstrument ==
    /\ pc = "build"
    /\ transproj.tracks # <<>>
    /\ transproj.tracks[Len(transproj.tracks)].instrument = None
    /\ \E plugin \in InstrumentSet :
          transproj' = [transproj EXCEPT !.tracks[Len(transproj.tracks)].instrument =
                            Some(plugin)]
    /\ UNCHANGED <<pc, self_ppq, data, header, idx, track_idx, clip_idx, pattern_count,
                   playlist_items, error, input, output>>
    /\ UNCHANGED <<conv, parser>>

\* faulty variant of BuildHeader: the destination is opened before the buffer
\* is assembled
BuildHeaderOpensFirst ==
    /\ pc = "build"
    /\ ~use_pyflp
    /\ files' = FileWrite(files, filepath, <<>>)
    /\ LET ppq_ == IF transproj.ppq # 0 THEN transproj.ppq ELSE self_ppq
       IN  /\ self_ppq' = ppq_
           /\ IF CanPackH(Len(transproj.tracks)) /\ CanPackH(ppq_)
                 /\ CanPackH(int(transproj.tempo))
              THEN /\ header' = [channels |-> Len(transproj.tracks), ppq |-> ppq_]
                   /\ data' = GlobalEvents(transproj)
                   /\ pc' = "channels"
                   /\ error' = ""
              ELSE /\ pc' = "raised"
                   /\ error' = "struct.error"
                   /\ UNCHANGED <<header, data>>
    /\ idx' = 0
    /\ UNCHANGED <<transproj, track_idx, clip_idx, pattern_count, playlist_items,
                   input, output>>
    /\ UNCHANGED <<filepath, use_pyflp, result, parser>>

\* FLStudioWriter.write line 45 and _build_flp_binary lines 71-103: the
\* header and the global events
BuildHeader ==
    /\ pc = "build"
    /\ ~use_pyflp
    /\ LET ppq_ == IF transproj.ppq # 0 THEN transproj.ppq ELSE self_ppq
       IN  /\ self_ppq' = ppq_
           /\ IF CanPackH(Len(transproj.tracks)) /\ CanPackH(ppq_)
                 /\ CanPackH(int(transproj.tempo))
              THEN /\ header' = [channels |-> Len(transproj.tracks), ppq |-> ppq_]
                   /\ data' = GlobalEvents(transproj)
                   /\ pc' = "channels"
                   /\ error' = ""
              ELSE /\ pc' = "raised"
                   /\ error' = "struct.error"
                   /\ UNCHANGED <<header, data>>
    /\ idx' = 0
    /\ UNCHANGED <<transproj, track_idx, clip_idx, pattern_count, playlist_items,
                   input, output>>
    /\ UNCHANGED <<conv, parser>>

\* _build_flp_binary lines 106-108: one iteration of the channel loop
WriteChannel ==
    /\ pc = "channels"
    /\ idx < Len(transproj.tracks)
    /\ LET track == _normalize_track_plugins(transproj.tracks[idx + 1])
           r == _write_channel(idx, track)
       IN  /\ transproj' = [transproj EXCEPT !.tracks[idx + 1] = track]
           /\ IF r.err = ""
              THEN /\ data' = data \o r.val
                   /\ idx' = idx + 1
                   /\ UNCHANGED <<pc, error>>
              ELSE /\ pc' = "raised"
                   /\ error' = r.err
                   /\ UNCHANGED <<data, idx>>
    /\ UNCHANGED <<self_ppq, header, track_idx, clip_idx, pattern_count, playlist_items,
                   input, output>>
    /\ UNCHANGED <<conv, parser>>

\* _build_flp_binary lines 110-115: the channel loop is over, the pattern loop
\* starts
StartPatterns ==
    /\ pc = "channels"
    /\ idx = Len(transproj.tracks)
    /\ pc' = "patterns"
    /\ pattern_count' = 0
    /\ playlist_items' = <<>>
    /\ track_idx' = 0
    /\ clip_idx' = 0
    /\ UNCHANGED <<transproj, self_ppq, data, header, idx, error, input, output>>
    /\ UNCHANGED <<conv, parser>>

\* faulty variant of the pattern loop body: the test of is_midi is left out
WritePatternEveryClip ==
    /\ pc = "patterns"
    /\ track_idx < Len(transproj.tracks)
    /\ clip_idx < Len(transproj.tracks[track_idx + 1].clips)
    /\ LET track == transproj.tracks[track_idx + 1]
           clip == track.clips[clip_idx + 1]
           r == _write_pattern(pattern_count, track_idx, track.name, clip, self_ppq)
       IN  IF r.err = ""
           THEN /\ data' = data \o r.val
                /\ playlist_items' = Append(playlist_items,
                       PlaylistItem(pattern_count, track_idx, clip, self_ppq))
                /\ pattern_count' = pattern_count + 1
                /\ clip_idx' = clip_idx + 1
                /\ UNCHANGED <<pc, error>>
           ELSE /\ pc' = "raised"
                /\ error' = r.err
                /\ UNCHANGED <<data, pattern_count, playlist_items, clip_idx>>
    /\ UNCHANGED <<transproj, self_ppq, header, idx, track_idx, input, output>>
    /\ UNCHANGED <<conv, parser>>

\* _build_flp_binary lines 116-128: one iteration of the inner loop, on a clip
\* that is not MIDI (skipped) or on a MIDI clip (one pattern)
WritePattern ==
    /\ pc = "patterns"
    /\ track_idx < Len(transproj.tracks)
    /\ clip_idx < Len(transproj.tracks[track_idx + 1].clips)
    /\ LET track == transproj.tracks[track_idx + 1]
           clip == track.clips[clip_idx + 1]
           r == _write_pattern(pattern_count, track_idx, track.name, clip, self_ppq)
       IN  IF ~clip.is_midi
           THEN /\ clip_idx' = clip_idx + 1
                /\ UNCHANGED <<pc, data, pattern_count, playlist_items, error>>
           ELSE IF r.err = ""
           THEN /\ data' = data \o r.val
                /\ playlist_items' = Append(playlist_items,
                       PlaylistItem(pattern_count, track_idx, clip, self_ppq))
                /\ pattern_count' = pattern_count + 1
                /\ clip_idx' = clip_idx + 1
                /\ UNCHANGED <<pc, error>>
           ELSE /\ pc' = "raised"
                /\ error' = r.err
                /\ UNCHANGED <<data, pattern_count, playlist_items, clip_idx>>
    /\ UNCHANGED <<transproj, self_ppq, header, idx, track_idx, input, output>>
    /\ UNCHANGED <<conv, parser>>

\* _build_flp_binary line 115: the clips of the track are done, next track
NextTrack ==
    /\ pc = "patterns"
    /\ track_idx < Len(transproj.tracks)
    /\ clip_idx = Len(transproj.tracks[track_idx + 1].clips)
    /\ track_idx' = track_idx + 1
    /\ clip_idx' = 0
    /\ UNCHANGED <<pc, transproj, self_ppq, data, header, idx, pattern_count,
                   playlist_items, error, input, output>>
    /\ UNCHANGED <<conv, parser>>

\* _build_flp_binary lines 130-139: the playlist, the back-patched size, the
\* bytes returned
WritePlaylist ==
    /\ pc = "patterns"
    /\ track_idx = Len(transproj.tracks)
    /\ LET r == _write_playlist(playlist_items)
       IN  IF r.err = ""
           THEN /\ data' = data \o r.val
                /\ output' = FlpBytes(header, data \o r.val)
                /\ pc' = "done"
                /\ UNCHANGED error
           ELSE /\ pc' = "raised"
                /\ error' = r.err
                /\ UNCHANGED <<data, output>>
    /\ UNCHANGED <<transproj, self_ppq, header, idx, track_idx, clip_idx, pattern_count,
                   playlist_items, input>>
    /\ UNCHANGED <<conv, parser>>

Next ==
    \/ add_track
    \/ AppendClip
    \/ SetInstrument
    \/ BuildHeader
    \/ WriteChannel
    \/ StartPatterns
    \/ WritePattern
    \/ NextTrack
    \/ WritePlaylist

Spec == Init /\ [][Next]_vars

-----------------------------------------------------------------------------
(* convert.py: convert_file, with FLStudioWriter.write between the parser   *)
(* and the final check of the destination.                                  *)

S_xml == <<60, 65, 98, 108, 101, 116, 111, 110, 47, 62>>    \* b'<Ableton/>'
S_o_flp == <<111, 46, 102, 108, 112>>                   \* 'o.flp'

\* the source paths given to convert_file
InputPaths ==
    { <<97, 46, 97, 108, 115>>,                         \* 'a.als'
      <<97>>,                                           \* 'a'
      <<100, 46, 120, 47, 97>>,                         \* 'd.x/a'
      <<97, 46, 98, 46, 97, 108, 115>>,                 \* 'a.b.als'
      <<46, 97, 108, 115>>,                             \* '.als'
      <<97, 46, 102, 108, 112>>,                        \* 'a.flp'
      <<97, 46>>,                                       \* 'a.'
      <<97, 46, 46, 97, 108, 115>>,                     \* 'a..als'
      <<>> }                                            \* ''

\* the output_file argument: not given, or a path
OutputArgs == {<<>>, S_o_flp}

\* the tracks the parser hands to the writer
ConvertTracks ==
    LET midi == Track(S_Lead, RatOne, RatZero, <<Clip(S_A, RatZero, Rat(4, 1),
                      <<NoteAt(1)>>, <<>>, TRUE, None)>>, None, <<>>, <<>>)
        audio == Track(S_A, RatHalf, RatZero, <<Clip(S_A, RatZero, Rat(4, 1),
                       <<>>, S_KickWav, FALSE, None)>>, None, <<>>, <<>>)
        foo == [midi EXCEPT !.instrument = Some(Plugin(S_Foo, S_Ableton, TRUE, None, <<>>))]
    IN  {<<>>, <<midi>>, <<midi, audio>>, <<foo>>}

\* the bytes the PyFLP backend saves: opaque, a non-empty file
S_pyflp == <<70, 76, 104, 100>>

writerState == <<data, header, idx, track_idx, clip_idx, pattern_count,
                 playlist_items, self_ppq, output>>

\* the destination convert_file is asked to produce, before the call
Destination(args) ==
    IF args.output_file # <<>> THEN args.output_file
    ELSE LET r == with_suffix(args.input_file, S_flp)
         IN  IF r.err = "" THEN r.val ELSE <<>>

InitConvert ==
    /\ pc = "convert"
    /\ input \in [input_file : InputPaths, output_file : OutputArgs]
    /\ \E source_exists \in BOOLEAN, stale \in BOOLEAN :
          files = (IF stale /\ Destination(input) # <<>>
                   THEN {<<Destination(input), <<>>>>} ELSE {})
                  \cup (IF source_exists /\ input.input_file # <<>>
                        THEN {<<input.input_file, S_xml>>} ELSE {})
    /\ use_pyflp \in BOOLEAN
    /\ filepath = <<>>
    /\ result = None
    /\ ptrack = None
    /\ clip_source = <<>>
    /\ transproj = TransProj(<<>>, Rat(120, 1), 96, <<>>)
    /\ self_ppq = DEFAULT_PPQ
    /\ data = <<>>
    /\ header = [channels |-> 0, ppq |-> 0]
    /\ idx = 0
    /\ track_idx = 0
    /\ clip_idx = 0
    /\ pattern_count = 0
    /\ playlist_items = <<>>
    /\ error = ""
    /\ output = <<>>

\* faulty variant of ConvertStart: the source is not looked for
ConvertStartUnchecked ==
    /\ pc = "convert"
    /\ IF input.output_file = <<>>
       THEN LET r == with_suffix(input.input_file, S_flp)
            IN  IF r.err = ""
                THEN /\ filepath' = r.val
                     /\ pc' = "parse"
                     /\ UNCHANGED <<result, error>>
                ELSE /\ pc' = "raised"
                     /\ error' = r.err
                     /\ UNCHANGED <<result, filepath>>
       ELSE /\ filepath' = input.output_file
            /\ pc' = "parse"
            /\ UNCHANGED <<result, error>>
    /\ UNCHANGED <<writerState, parser, transproj, input, files, use_pyflp>>

\* convert_file lines 45-52: the source must exist; the destination defaults to
\* the source with the suffix '.flp'
ConvertStart ==
    /\ pc = "convert"
    /\ IF ~PathExists(files, input.input_file)
       THEN /\ result' = Some(FALSE)
            /\ pc' = "returned"
            /\ UNCHANGED <<filepath, error>>
       ELSE IF input.output_file = <<>>
       THEN LET r == with_suffix(input.input_file, S_flp)
            IN  IF r.err = ""
                THEN /\ filepath' = r.val
                     /\ pc' = "parse"
                     /\ UNCHANGED <<result, error>>
                ELSE /\ pc' = "raised"
                     /\ error' = r.err
                     /\ UNCHANGED <<result, filepath>>
       ELSE /\ filepath' = input.output_file
            /\ pc' = "parse"
            /\ UNCHANGED <<result, error>>
    /\ UNCHANGED <<writerState, parser, transproj, input, files, use_pyflp>>

\* convert_file line 56: parse_ableton_project(input_file) returns a TransProj
\* named after the source, or raises (not a file, not XML, not an Ableton set)
ParseProject ==
    /\ pc = "parse"
    /\ \/ /\ DictHas(files, input.input_file)
          /\ \E tracks \in ConvertTracks :
                transproj' = TransProj(PathStem(input.input_file), Rat(120, 1), 96, tracks)
          /\ pc' = "build"
          /\ UNCHANGED error
       \/ /\ pc' = "raised"
          /\ error' = "ParseError"
          /\ UNCHANGED transproj
    /\ UNCHANGED <<writerState, parser, input, files, use_pyflp, filepath, result>>

\* FLStudioWriter.write lines 45-49 and _write_with_pyflp: the PyFLP backend
\* either raises or saves a file
WriteWithPyflp ==
    /\ pc = "build"
    /\ use_pyflp
    /\ self_ppq' = (IF transproj.ppq # 0 THEN transproj.ppq ELSE self_ppq)
    /\ \/ /\ files' = FileWrite(files, filepath, S_pyflp)
          /\ pc' = "verify"
          /\ UNCHANGED error
       \/ /\ pc' = "raised"
          /\ error' = "Exception"
          /\ UNCHANGED files
    /\ UNCHANGED <<data, header, idx, track_idx, clip_idx, pattern_count,
                   playlist_items, output, transproj, input, use_pyflp, filepath,
                   result, parser>>

\* FLStudioWriter.write lines 55-56: open(filepath, 'wb') and f.write(data);
\* open can fail, and so can the write after open has created the file
WriteFile ==
    /\ pc = "done"
    /\ \/ /\ files' = FileWrite(files, filepath, output)
          /\ pc' = "verify"
          /\ UNCHANGED error
       \/ /\ pc' = "raised"
          /\ error' = "OSError"
          /\ UNCHANGED files
       \/ /\ files' = FileWrite(files, filepath, <<>>)
          /\ pc' = "raised"
          /\ error' = "OSError"
    /\ UNCHANGED <<writerState, parser, transproj, input, use_pyflp, filepath, result>>

\* convert_file lines 63-71: the destination must exist
VerifyOutput ==
    /\ pc = "verify"
    /\ result' = Some(PathExists(files, filepath))
    /\ pc' = "returned"
    /\ UNCHANGED <<writerState, parser, transproj, input, files, use_pyflp, filepath, error>>

\* convert_file lines 73-80: every exception is logged and answered with False
ConvertExcept ==
    /\ pc = "raised"
    /\ result' = Some(FALSE)
    /\ pc' = "returned"
    /\ UNCHANGED <<writerState, parser, transproj, input, files, use_pyflp, filepath, error>>

NextConvert ==
    \/ ConvertStart
    \/ ParseProject
    \/ WriteWithPyflp
    \/ BuildHeader
    \/ WriteChannel
    \/ StartPatterns
    \/ WritePattern
    \/ NextTrack
    \/ WritePlaylist
    \/ WriteFile
    \/ VerifyOutput
    \/ ConvertExcept

SpecConvert == InitConvert /\ [][NextConvert]_vars

-----------------------------------------------------------------------------
(* The writer over one-track projects with every kind of device: the tracks *)
(* that _write_channel tells apart.                                         *)

S_DrumGroupDevice ==        \* 'DrumGroupDevice'
    <<68, 114, 117, 109, 71, 114, 111, 117, 112, 68, 101, 118, 105, 99, 101>>
S_Kick == <<75, 105, 99, 107>>                           \* 'Kick'
S_Reverb == <<82, 101, 118, 101, 114, 98>>             \* 'Reverb'

\* explicit instruments: mapped to 3xOsc, Sytrus, Harmor (no generator of its
\* own), unmapped, mapped to Sampler, mapped to FPC by name and by device type
ChannelInstruments ==
    { Plugin(name, S_Ableton, TRUE, None, <<>>) :
        name \in { <<79, 112, 101, 114, 97, 116, 111, 114>>, <<65, 110, 97, 108, 111, 103>>, <<87, 97, 118, 101, 116, 97, 98, 108, 101>>, <<70, 111, 111>>, <<83, 105, 109, 112, 108, 101, 114>>, <<67, 111, 108, 108, 105, 115, 105, 111, 110>> } }
    \cup { Plugin(S_Foo, S_Ableton, TRUE, Some(S_DrumGroupDevice), <<>>),
           Plugin(<<79, 112, 101, 114, 97, 116, 111, 114>>, S_Ableton, TRUE, None,
                  <<<<<<86, 111, 108, 117, 109, 101>>, RatHalf>>>>) }

ChannelClipLists ==
    LET midi == Clip(S_A, RatZero, Rat(4, 1), <<NoteAt(1)>>, <<>>, TRUE, None)
        audio == Clip(S_A, RatZero, Rat(4, 1), <<>>, S_KickWav, FALSE, None)
        nopath == Clip(S_A, RatZero, Rat(4, 1), <<>>, <<>>, FALSE, None)
    IN  { <<>>, <<midi>>, <<audio>>, <<nopath>>, <<nopath, midi>>, <<midi, audio>> }

\* no rack, an effect rack, a drum rack with a pad, a drum group without pads,
\* an instrument rack with two nested plugins
ChannelRackLists ==
    LET fx == Rack(S_Reverb, None, <<Plugin(S_Reverb, S_Ableton, FALSE, None, <<>>)>>, <<>>)
        drum == Rack(S_Kick, Some(S_DrumGroupDevice), <<>>,
                     <<DrumPad(0, S_Kick, S_KickWav, 36, RatOne, RatZero)>>)
        nopads == Rack(S_Kick, Some(S_DrumGroupDevice), <<>>, <<>>)
        inst == Rack(S_Lead, Some(S_InstrumentGroupDevice),
                     <<Plugin(S_Analog, S_Ableton, TRUE, None, <<>>),
                       Plugin(S_Reverb, S_Ableton, FALSE, None, <<>>)>>, <<>>)
    IN  { <<>>, <<fx>>, <<drum>>, <<nopads>>, <<inst>>, <<fx, drum>> }

ChannelTracks ==
    { Track(S_Lead, volume, RatZero, clips, instrument, <<>>, racks) :
        volume \in {RatOne},
        clips \in ChannelClipLists,
        instrument \in {None} \cup {Some(p) : p \in ChannelInstruments},
        racks \in ChannelRackLists }

\* the project handed to FLStudioWriter.write holds one of these tracks;
\* `input` keeps the track as it was handed over
InitChannel ==
    /\ pc = "build"
    /\ input \in ChannelTracks
    /\ transproj = TransProj(S_Lead, Rat(120, 1), 96, <<input>>)
    /\ self_ppq = DEFAULT_PPQ
    /\ data = <<>>
    /\ header = [channels |-> 0, ppq |-> 0]
    /\ idx = 0
    /\ track_idx = 0
    /\ clip_idx = 0
    /\ pattern_count = 0
    /\ playlist_items = <<>>
    /\ error = ""
    /\ output = <<>>
    /\ files = {}
    /\ filepath = <<>>
    /\ use_pyflp = FALSE
    /\ result = None
    /\ ptrack = None
    /\ clip_source = <<>>

NextBuild ==
    \/ BuildHeader
    \/ WriteChannel
    \/ StartPatterns
    \/ WritePattern
    \/ NextTrack
    \/ WritePlaylist

SpecChannel == InitChannel /\ [][NextBuild]_vars

-----------------------------------------------------------------------------
(* Properties of the event stream of _build_flp_binary *)

\* positions of the events of `events` that carry tag `tag`
TagPositions(events, tag) == {i \in 1..Len(events) : events[i].tag = tag}

IsPatternStart(e) == e.tag = EV_NEW_PAT

\* the MIDI clips of the tracks, in processing order: tracks in order, clips in
\* order within a track
MidiClipCount(tracks) ==
    Cardinality({tc \in (1..Len(tracks)) \X (1..MaxClips) :
                    /\ tc[2] <= Len(tracks[tc[1]].clips)
                    /\ tracks[tc[1]].clips[tc[2]].is_midi})

Building == pc \in {"channels", "patterns", "done"}

\* C1: the event stream of _build_flp_binary has exactly one tempo event
\* (tag 66); it comes before every channel-start event (tag 64) and before
\* every pattern-start event (tag 65), at every point of the build and in the
\* bytes returned.
C1_OneTempoEvent ==
    Building =>
        LET tempos == TagPositions(data, EV_TEMPO)
        IN  /\ Cardinality(tempos) = 1
            /\ \A i \in tempos :
                  /\ data[i].payload = PackH(int(transproj.tempo))
                  /\ \A j \in TagPositions(data, EV_NEW_CHAN) \cup
                              TagPositions(data, EV_NEW_PAT) : i < j
            /\ pc = "done" => output = FlpBytes(header, data)

\* a finished build with channels and patterns after the tempo event
C1_Witness ==
    /\ pc = "done"
    /\ TagPositions(data, EV_NEW_CHAN) # {}
    /\ Cardinality(TagPositions(data, EV_NEW_PAT)) >= 2

\* C2: the k-th pattern-start event of the stream carries pattern index k
\* (one-based, no gaps); the indices follow the MIDI clips in processing order
\* and a skipped audio clip consumes no index, so that a finished build has as
\* many pattern-start events as the project has MIDI clips.
C2_PatternIndices ==
    Building =>
        LET starts == SelectSeq(data, IsPatternStart)
        IN  /\ \A k \in 1..Len(starts) : starts[k].payload = PackH(k)
            /\ Len(starts) = pattern_count
            /\ pc = "done" => Len(starts) = MidiClipCount(transproj.tracks)

\* a finished build of two tracks in which an audio clip was skipped between
\* two MIDI clips
C2_Witness ==
    /\ pc = "done"
    /\ Len(transproj.tracks) = 2
    /\ Len(SelectSeq(data, IsPatternStart)) >= 2
    /\ \E t \in 1..Len(transproj.tracks) :
          LET clips == transproj.tracks[t].clips
          IN  /\ Len(clips) >= 2
              /\ ~clips[1].is_midi
              /\ clips[2].is_midi

-----------------------------------------------------------------------------
(* Properties of convert_file *)

\* "the source path with its extension replaced": the extension is the part of
\* the final component from its last dot on, when that dot is neither the
\* first nor the last character of the component
ExtensionStart(src) ==
    {k \in 1..(Len(src) - 2) :
        /\ src[k + 1] = Dot
        /\ src[k] # Slash
        /\ \A j \in (k + 2)..Len(src) : src[j] # Dot /\ src[j] # Slash}

ExtensionReplaced(src, ext) ==
    IF ExtensionStart(src) = {} THEN src \o ext
    ELSE SubSeq(src, 1, CHOOSE k \in ExtensionStart(src) : TRUE) \o ext

-----------------------------------------------------------------------------
(* Properties of the channel record *)

\* the channel loop has dealt with the one track of the project
ChannelWritten == pc \in {"channels", "patterns", "done"} /\ idx = 1

\* the plugin-state events (tag 205) of the stream
PluginEvents == SelectSeq(data, LAMBDA e : e.tag = EV_CHAN_PLUGIN)

\* the blob of a plugin-state event: the payload after its varint length
PluginBlob(e) ==
    LET n == CHOOSE n \in 0..Len(e.payload) :
                 SubSeq(e.payload, 1, Len(e.payload) - n) = _write_varint(n)
    IN  SubSeq(e.payload, Len(e.payload) - n + 1, Len(e.payload))

\* C4: a track with an explicit instrument, whatever its name and device type
\* and whatever its clips, is encoded without error, and its channel record
\* carries a plugin-state event with a non-empty blob.
C4_InstrumentNeverFatal ==
    (pc # "build" /\ input.instrument # None) =>
        /\ pc # "raised"
        /\ ChannelWritten =>
              /\ Len(PluginEvents) = 1
              /\ PluginBlob(PluginEvents[1]) # <<>>

\* the rule of the priority list that applies first to a track: 1 explicit
\* instrument, 2 drum rack, 3 audio clip with a sample path, 4 MIDI content,
\* 0 none
PriorityRule(track) ==
    IF track.instrument # None THEN 1
    ELSE IF \E i \in 1..Len(track.racks) : is_drum_rack(track.racks[i]) THEN 2
    ELSE IF FirstAudioClip(track) # None THEN 3
    ELSE IF has_midi(track) THEN 4
    ELSE 0

\* the magic tag of the blob each rule selects for a track without instrument
RuleMagic(rule) ==
    CASE rule = 2 -> <<70, 80, 67, 32>>                 \* b'FPC '
      [] rule = 3 -> <<83, 77, 80, 76>>                 \* b'SMPL'
      [] rule = 4 -> <<51, 79, 83, 67>>                 \* b'3OSC'

\* C5: the plugin-state event of a channel record is the one of the first
\* applicable rule: for a track without instrument, the kit blob of its drum
\* rack, else the sampler blob of its audio clip with a sample path, else the
\* 3xOsc blob when it has MIDI content, else none; other racks and audio clips
\* without a path do not stand in the way.
C5_PriorityRule ==
    (ChannelWritten /\ transproj.tracks[1].instrument = None) =>
        LET rule == PriorityRule(transproj.tracks[1])
        IN  IF rule = 0 THEN PluginEvents = <<>>
            ELSE /\ Len(PluginEvents) = 1
                 /\ SubSeq(PluginBlob(PluginEvents[1]), 1, 4) = RuleMagic(rule)

\* C6: the channel record of a track with a MIDI clip and no explicit
\* instrument carries a plugin-state event, the 3xOsc blob when the track has
\* neither a drum rack nor an audio clip with a sample path.
C6_MidiTrackHasGenerator ==
    (ChannelWritten /\ input.instrument = None /\ has_midi(input)) =>
        /\ PluginEvents # <<>>
        /\ (PriorityRule(transproj.tracks[1]) = 4 =>
               PluginBlob(PluginEvents[1]) = generate(S_3xOsc, NoKwargs).val)

-----------------------------------------------------------------------------
(* PluginMapper.ableton_to_fl over every key of its tables, an unmapped     *)
(* name and the empty name                                                  *)

MapperNames ==
    {p[1] : p \in ABLETON_TO_FL_INSTRUMENTS \cup ABLETON_TO_FL_EFFECTS
                  \cup ABLETON_TO_FL_DRUMS}
    \cup {<<>>, S_Foo}

MapperDeviceTypes ==
    {None, Some(<<>>), Some(S_DrumGroupDevice), Some(S_Foo), Some(S_Reverb),
     Some(S_InstrumentGroupDevice)}

InitMapper ==
    /\ pc = "map"
    /\ input \in [ableton_name : MapperNames, is_instrument : BOOLEAN,
                  device_type : MapperDeviceTypes]
    /\ output = <<>>
    /\ transproj = TransProj(<<>>, Rat(120, 1), 96, <<>>)
    /\ self_ppq = DEFAULT_PPQ
    /\ data = <<>>
    /\ header = [channels |-> 0, ppq |-> 0]
    /\ idx = 0
    /\ track_idx = 0
    /\ clip_idx = 0
    /\ pattern_count = 0
    /\ playlist_items = <<>>
    /\ error = ""
    /\ files = {}
    /\ filepath = <<>>
    /\ use_pyflp = FALSE
    /\ result = None
    /\ ptrack = None
    /\ clip_source = <<>>

\* PluginMapper.ableton_to_fl(ableton_name, is_instrument, device_type)
MapPlugin ==
    /\ pc = "map"
    /\ output' = ableton_to_fl(input.ableton_name, input.is_instrument, input.device_type)
    /\ pc' = "mapped"
    /\ UNCHANGED <<transproj, data, header, idx, track_idx, clip_idx, pattern_count,
                   playlist_items, self_ppq, error, input, conv, parser>>

NextMapper == MapPlugin

SpecMapper == InitMapper /\ [][NextMapper]_vars

\* the key the tables are searched with: the device type when one is given
\* and not empty, the name otherwise
LookupKey(args) ==
    IF args.device_type # None /\ args.device_type[1] # <<>>
    THEN args.device_type[1] ELSE args.ableton_name

\* C8 (as stated): ableton_to_fl never returns the empty string, for every
\* name (the empty one included), flag and device type.
C8_NeverEmpty ==
    pc = "mapped" => output # <<>>

\* C8 (amended): ableton_to_fl is total. A key of the drum table gives its
\* target. Otherwise an instrument gives the target of its key, 'Sampler' when
\* the key is unmapped, and an effect gives the target of its key, the original
\* name when the key is unmapped. The result is empty only for an unmapped
\* effect whose name is empty.
C8_MappingTotal ==
    pc = "mapped" =>
        LET key == LookupKey(input)
        IN  /\ (~DictHas(ABLETON_TO_FL_DRUMS, key) /\ input.is_instrument
                /\ ~DictHas(ABLETON_TO_FL_INSTRUMENTS, key)) => output = S_Sampler
            /\ (~DictHas(ABLETON_TO_FL_DRUMS, key) /\ ~input.is_instrument
                /\ ~DictHas(ABLETON_TO_FL_EFFECTS, key)) => output = input.ableton_name
            /\ output = <<>> =>
                  /\ input.ableton_name = <<>>
                  /\ ~input.is_instrument
                  /\ ~DictHas(ABLETON_TO_FL_DRUMS, key)
                  /\ ~DictHas(ABLETON_TO_FL_EFFECTS, key)

\* an effect with the empty name and an unmapped device type: the original
\* name, which is empty, comes back
C8_Witness ==
    /\ pc = "mapped"
    /\ input.ableton_name = <<>>
    /\ ~input.is_instrument
    /\ input.device_type = Some(S_Foo)
    /\ output = input.ableton_name

-----------------------------------------------------------------------------
(* PluginStateGenerator.generate_fpc_state, called directly and through     *)
(* FLStudioWriter._generate_drum_rack_state                                 *)

\* pad lists of 0..MaxPads pads
MaxPads == 18

\* the bytes before the pad records (magic, version, pad count) and the bytes
\* of a pad record besides its path (enabled flag, path length, three params)
FPC_HEADER_LEN == 12
FPC_RECORD_LEN == 6

\* pad i of a pad list: without a 'sample_path' key, with an empty path, with
\* the same path as every other pad, with a path of its own
FpcPad(style, volume, i) ==
    CASE style = "nokey" -> [volume |-> volume]
      [] style = "empty" -> [sample_path |-> <<>>, volume |-> volume, pan |-> RatHalf]
      [] style = "same" -> [sample_path |-> S_KickWav, volume |-> volume, pan |-> RatHalf]
      [] style = "own" -> [sample_path |-> Str(i), volume |-> volume, pan |-> RatHalf,
                           tune |-> RatHalf]

FpcPadLists ==
    { [i \in 1..n |-> FpcPad(style, volume, i)] :
        n \in 0..MaxPads, style \in {"nokey", "empty", "same", "own"},
        volume \in {RatOne, RatHalf} }

\* drum racks of 0..MaxPads pads, with pad pans of the range -1.0 .. 1.0
FpcRacks ==
    { Rack(S_Kick, Some(S_DrumGroupDevice), <<>>,
           [i \in 1..n |-> DrumPad(i - 1, S_Kick, IF own THEN Str(i) ELSE <<>>,
                                   35 + i, RatOne, pan)]) :
        n \in 0..MaxPads, own \in BOOLEAN, pan \in {RatZero, RatHalf, Rat(-1, 2)} }

InitFpc ==
    /\ \/ pc = "pads" /\ input \in FpcPadLists
       \/ pc = "rack" /\ input \in FpcRacks
    /\ output = <<>>
    /\ transproj = TransProj(<<>>, Rat(120, 1), 96, <<>>)
    /\ self_ppq = DEFAULT_PPQ
    /\ data = <<>>
    /\ header = [channels |-> 0, ppq |-> 0]
    /\ idx = 0
    /\ track_idx = 0
    /\ clip_idx = 0
    /\ pattern_count = 0
    /\ playlist_items = <<>>
    /\ error = ""
    /\ files = {}
    /\ filepath = <<>>
    /\ use_pyflp = FALSE
    /\ result = None
    /\ ptrack = None
    /\ clip_source = <<>>

\* PluginStateGenerator.generate_fpc_state(pads)
GenerateFpc ==
    /\ pc = "pads"
    /\ LET r == generate_fpc_state(input)
       IN  /\ output' = r.val
           /\ error' = r.err
           /\ pc' = IF r.err = "" THEN "fpc" ELSE "raised"
    /\ UNCHANGED <<transproj, data, header, idx, track_idx, clip_idx, pattern_count,
                   playlist_items, self_ppq, input, conv, parser>>

\* FLStudioWriter._generate_drum_rack_state(rack); the pads of the rack take
\* the place of the rack in `input`
GenerateDrumRack ==
    /\ pc = "rack"
    /\ LET r == _generate_drum_rack_state(input)
       IN  /\ output' = r.val
           /\ error' = r.err
           /\ pc' = IF r.err = "" THEN "fpc" ELSE "raised"
    /\ input' = input.drum_pads
    /\ UNCHANGED <<transproj, data, header, idx, track_idx, clip_idx, pattern_count,
                   playlist_items, self_ppq, conv, parser>>

NextFpc ==
    \/ GenerateFpc
    \/ GenerateDrumRack

SpecFpc == InitFpc /\ [][NextFpc]_vars

\* the pad records of a kit blob, read back by the layout of the blob: one
\* flag byte, a 2-byte path length, the path, three parameter bytes
RECURSIVE DecodePadRecords(_)
DecodePadRecords(bytes) ==
    IF bytes = <<>> THEN <<>>
    ELSE IF Len(bytes) < FPC_RECORD_LEN
            \/ Len(bytes) < FPC_RECORD_LEN + bytes[2] + 256 * bytes[3]
    THEN <<[present |-> -1, path |-> bytes, params |-> <<>>]>>
    ELSE LET n == bytes[2] + 256 * bytes[3]
         IN  <<[present |-> bytes[1],
                path |-> SubSeq(bytes, 4, 3 + n),
                params |-> SubSeq(bytes, 4 + n, 6 + n)]>>
             \o DecodePadRecords(SubSeq(bytes, 7 + n, Len(bytes)))

FpcRecords == DecodePadRecords(SubSeq(output, FPC_HEADER_LEN + 1, Len(output)))

\* the sample paths of the pads that are kept, as they are encoded
KeptPaths ==
    [i \in 1..Min(Len(input), FPC_PADS) |->
        EncodeUtf8(KwGet(input[i], "sample_path", <<>>))]

\* C9: a kit blob holds exactly 16 pad records whatever the length n of the
\* pad list; its pad-count field is min(n, 16); the first min(n, 16) records
\* are the supplied pads in order, marked present; the others are absent-pad
\* records; pads after the 16th leave no trace in the blob.
C9_SixteenPadRecords ==
    pc = "fpc" =>
        LET kept == Min(Len(input), FPC_PADS)
        IN  /\ SubSeq(output, 1, 8) = <<70, 80, 67, 32>> \o PackI(1)
            /\ SubSeq(output, 9, 12) = PackI(kept)
            /\ Len(FpcRecords) = FPC_PADS
            /\ \A i \in 1..kept :
                  /\ FpcRecords[i].present = 1
                  /\ FpcRecords[i].path = KeptPaths[i]
                  /\ FpcRecords[i].params[1] = Percent(KwGet(input[i], "volume", RatOne))
            /\ \A i \in (kept + 1)..FPC_PADS :
                  FpcRecords[i] = [present |-> 0, path |-> <<>>,
                                   params |-> <<100, 100, 100>>]

\* a kit blob of more than 16 pads, each with a path of its own
C9_Witness ==
    /\ pc = "fpc"
    /\ Len(input) > FPC_PADS
    /\ \A i \in 1..Len(input) : KwGet(input[i], "sample_path", <<>>) = Str(i)
    /\ Len(FpcRecords) = FPC_PADS

RECURSIVE SumLen(_)
SumLen(seqs) == IF seqs = <<>> THEN 0 ELSE Len(Head(seqs)) + SumLen(Tail(seqs))

\* C10 (as stated): the byte length of a kit blob is the fixed value
\* base_header + 16 * per-pad-record-size, whatever the pads and their paths.
C10_FixedLength ==
    pc = "fpc" => Len(output) = FPC_HEADER_LEN + FPC_PADS * FPC_RECORD_LEN

\* C10 (amended): the byte length of a kit blob is base_header + 16 * the
\* fixed part of a pad record + the UTF-8 lengths of the sample paths of the
\* pads that are kept; it is the fixed value when those paths are empty.
C10_LengthWithPaths ==
    pc = "fpc" =>
        /\ Len(output) = FPC_HEADER_LEN + FPC_PADS * FPC_RECORD_LEN + SumLen(KeptPaths)
        /\ (\A i \in 1..Len(KeptPaths) : KeptPaths[i] = <<>>) =>
               Len(output) = FPC_HEADER_LEN + FPC_PADS * FPC_RECORD_LEN

\* three populated pads and thirteen empty slots: the pad count reads 3 and
\* the blob is longer than the fixed value by the three paths
C10_Witness ==
    /\ pc = "fpc"
    /\ Len(input) = 3
    /\ \A i \in 1..3 : KeptPaths[i] = EncodeUtf8(S_KickWav)
    /\ SubSeq(output, 9, 12) = PackI(3)
    /\ Len(output) = FPC_HEADER_LEN + FPC_PADS * FPC_RECORD_LEN + 3 * Len(S_KickWav)

-----------------------------------------------------------------------------
(* evaluation order *)

\* F applied to the value of v, which is computed once
Let(v, F(_)) == CHOOSE r \in {F(x) : x \in {v}} : TRUE

\* a call r that can raise, followed by F on the value it returned: the
\* exception of r leaves the caller at once
Then(r, F(_)) == Let(r, LAMBDA x : IF x.err # "" THEN x ELSE F(x.val))

Range(s) == {s[i] : i \in 1..Len(s)}

-----------------------------------------------------------------------------
(* xml.etree.ElementTree, as parsers/ableton_parser.py uses it *)

\* an Element: its tag, its attributes (a dict from attribute name to str) and
\* its children in document order.  Two elements with the same tag, attributes
\* and children are one value here; Live gives every clip its own Id attribute.
Element(tag, attrib, children) == [tag |-> tag, attrib |-> attrib, children |-> children]

\* Element.get(key, default)
ElementGet(elem, key, default) == DictGet(elem.attrib, key, default)

\* bool(elem), the test of `if elem:`: an element without children is false
ElementTruth(elem) == Len(elem.children) > 0

\* the elements below elem, in document order (Element.iter() without elem)
RECURSIVE Descendants(_)
Descendants(elem) ==
    Flatten([i \in 1..Len(elem.children) |->
                <<elem.children[i]>> \o Descendants(elem.children[i])])

WithTag(elems, tag) == SelectSeq(elems, LAMBDA x : x.tag = tag)

\* the steps '/tag' of a path: the children with that tag of each element
RECURSIVE ChildSteps(_, _)
ChildSteps(elems, tags) ==
    IF tags = <<>> THEN elems
    ELSE ChildSteps(Flatten([i \in 1..Len(elems) |-> WithTag(elems[i].children, Head(tags))]),
                    Tail(tags))

\* elem.findall(path): path './/t1/t2/...' when descend, 't1/t2/...' otherwise
findall(elem, descend, tags) ==
    ChildSteps(WithTag(IF descend THEN Descendants(elem) ELSE elem.children, Head(tags)),
               Tail(tags))

\* elem.find(path): the first match, or None
find(elem, descend, tags) ==
    Let(findall(elem, descend, tags), LAMBDA r : IF r = <<>> THEN None ELSE Some(r[1]))

\* elem.find(path).get('Value', default) if the element is found, else missing
FindValue(elem, descend, tags, default, missing) ==
    Let(find(elem, descend, tags),
        LAMBDA found : IF found # None THEN ElementGet(found[1], "Value", default)
                       ELSE missing)

-----------------------------------------------------------------------------
(* float(str) and int(str) *)

\* The strings the model draws are plain decimal literals ([+-] digits
\* [. digits]) or no numbers at all; exponents, inf, nan, blanks and
\* underscores do not occur in them.
IsDigits(s) == \A i \in 1..Len(s) : s[i] \in 48..57

RECURSIVE DigitsValue(_)
DigitsValue(s) ==
    IF s = <<>> THEN 0 ELSE DigitsValue(SubSeq(s, 1, Len(s) - 1)) * 10 + (s[Len(s)] - 48)

RECURSIVE Pow10(_)
Pow10(k) == IF k = 0 THEN 1 ELSE 10 * Pow10(k - 1)

Unsigned(s) == IF s # <<>> /\ s[1] \in {43, 45} THEN Tail(s) ELSE s
Signed(s, value) == IF s # <<>> /\ s[1] = 45 THEN -value ELSE value

\* int(s)
int_of_str(s) ==
    Let(Unsigned(s),
        LAMBDA body : IF body # <<>> /\ IsDigits(body) THEN Ok(Signed(s, DigitsValue(body)))
                      ELSE Raise("ValueError"))

\* the place of the first '.' of body, Len(body) + 1 without one
DotIndex(body) ==
    Let({i \in 1..Len(body) : body[i] = Dot},
        LAMBDA dots : IF dots = {} THEN Len(body) + 1
                      ELSE CHOOSE i \in dots : \A j \in dots : i <= j)

\* the float of sign, digits before the point and digits after it
Decimal(s, whole, frac) ==
    IF IsDigits(whole) /\ IsDigits(frac) /\ Len(whole) + Len(frac) > 0
    THEN Ok(RatNorm(Rat(Signed(s, DigitsValue(whole) * Pow10(Len(frac)) + DigitsValue(frac)),
                        Pow10(Len(frac)))))
    ELSE Raise("ValueError")

\* float(s)
float_of_str(s) ==
    Let(Unsigned(s),
        LAMBDA body : Let(DotIndex(body),
                          LAMBDA dot : Decimal(s, SubSeq(body, 1, dot - 1),
                                               SubSeq(body, dot + 1, Len(body)))))

RatSub(a, b) == RatNorm(Rat(a.n * b.d - b.n * a.d, a.d * b.d))

-----------------------------------------------------------------------------
(* parsers/ableton_parser.py: the clips of a track *)

S_MIDIClip == <<77, 73, 68, 73, 32, 67, 108, 105, 112>>          \* 'MIDI Clip'
S_AudioClip == <<65, 117, 100, 105, 111, 32, 67, 108, 105, 112>> \* 'Audio Clip'
S_Track == <<84, 114, 97, 99, 107>>                              \* 'Track'
S_0 == <<48>>                                                    \* '0'
S_1 == <<49>>                                                    \* '1'
S_4 == <<52>>                                                    \* '4'
S_60 == <<54, 48>>                                               \* '60'
S_100 == <<49, 48, 48>>                                          \* '100'
S_1_0 == <<49, 46, 48>>                                          \* '1.0'
S_0_0 == <<48, 46, 48>>                                          \* '0.0'

\* AbletonParser._get_clip_name
_get_clip_name(clip_elem) == FindValue(clip_elem, TRUE, <<"Name">>, <<>>, <<>>)

\* the name _parse_midi_clip and _parse_audio_clip give the Clip
ParsedClipName(clip_elem, default) == FindValue(clip_elem, TRUE, <<"Name">>, default, default)

\* float(e.get('Value', default_str)) if e is not None else default, e the
\* first element of that tag below elem
FloatValue(elem, tag, default_str, default) ==
    Let(find(elem, TRUE, <<tag>>),
        LAMBDA e : IF e # None THEN float_of_str(ElementGet(e[1], "Value", default_str))
                   ELSE Ok(default))

\* start and end of a clip: <<start, end>>
ClipTimes(clip_elem) ==
    Then(FloatValue(clip_elem, "CurrentStart", S_0, RatZero), LAMBDA start :
    Then(FloatValue(clip_elem, "CurrentEnd", S_4, Rat(4, 1)), LAMBDA end :
         Ok(<<start, end>>)))

\* the MidiNoteEvent loop of _parse_midi_clip; velocity / 127.0 is the exact
\* quotient
RECURSIVE ParseNoteEvents(_, _)
ParseNoteEvents(note_elems, note_num) ==
    IF note_elems = <<>> THEN Ok(<<>>)
    ELSE Then(float_of_str(ElementGet(Head(note_elems), "Time", S_0)), LAMBDA time :
         Then(float_of_str(ElementGet(Head(note_elems), "Duration", S_1)), LAMBDA duration :
         Then(float_of_str(ElementGet(Head(note_elems), "Velocity", S_100)), LAMBDA velocity :
         Then(ParseNoteEvents(Tail(note_elems), note_num), LAMBDA rest :
              Ok(<<Note(time, duration, note_num, RatNorm(RatDivInt(velocity, 127)))>>
                 \o rest)))))

\* the notes of one KeyTrack of _parse_midi_clip
KeyTrackNotes(key_track) ==
    Let(find(key_track, TRUE, <<"MidiKey">>), LAMBDA midi_key_elem :
        IF midi_key_elem = None THEN Ok(<<>>)
        ELSE Then(int_of_str(ElementGet(midi_key_elem[1], "Value", S_60)), LAMBDA note_num :
             Let(find(key_track, TRUE, <<"Notes">>), LAMBDA notes_elem :
                 IF notes_elem # None /\ ElementTruth(notes_elem[1])
                 THEN ParseNoteEvents(findall(notes_elem[1], FALSE, <<"MidiNoteEvent">>),
                                      note_num)
                 ELSE Ok(<<>>))))

\* the KeyTrack loop of _parse_midi_clip
RECURSIVE ParseKeyTracks(_)
ParseKeyTracks(key_tracks) ==
    IF key_tracks = <<>> THEN Ok(<<>>)
    ELSE Then(KeyTrackNotes(Head(key_tracks)), LAMBDA notes :
         Then(ParseKeyTracks(Tail(key_tracks)), LAMBDA rest :
              Ok(notes \o rest)))

\* clip.notes of _parse_midi_clip
ClipNotes(clip_elem) ==
    Let(find(clip_elem, TRUE, <<"Notes", "KeyTracks">>), LAMBDA key_tracks :
        IF key_tracks # None /\ ElementTruth(key_tracks[1])
        THEN ParseKeyTracks(findall(key_tracks[1], FALSE, <<"KeyTrack">>))
        ELSE Ok(<<>>))

\* AbletonParser._parse_midi_clip
_parse_midi_clip(clip_elem, scene_index) ==
    Then(ClipTimes(clip_elem), LAMBDA times :
    Then(ClipNotes(clip_elem), LAMBDA notes :
         Ok(Clip(ParsedClipName(clip_elem, S_MIDIClip), times[1],
                 RatSub(times[2], times[1]), notes, <<>>, TRUE, scene_index))))

\* clip.audio_path of _parse_audio_clip
ClipAudioPath(clip_elem) ==
    Let(find(clip_elem, TRUE, <<"SampleRef", "FileRef">>), LAMBDA sample_ref :
        IF sample_ref # None /\ ElementTruth(sample_ref[1])
        THEN FindValue(sample_ref[1], TRUE, <<"Path">>, <<>>, <<>>)
        ELSE <<>>)

\* AbletonParser._parse_audio_clip
_parse_audio_clip(clip_elem, scene_index) ==
    Then(ClipTimes(clip_elem), LAMBDA times :
         Ok(Clip(ParsedClipName(clip_elem, S_AudioClip), times[1],
                 RatSub(times[2], times[1]), <<>>, ClipAudioPath(clip_elem), FALSE,
                 scene_index)))

ParseClip(clip_elem, is_midi, scene_index) ==
    IF is_midi THEN _parse_midi_clip(clip_elem, scene_index)
    ELSE _parse_audio_clip(clip_elem, scene_index)

\* a Clip appended to track.clips, with the element it was parsed from
Parsed(clip, elem) == [clip |-> clip, elem |-> elem]

\* the clips one list of elements adds to track.clips (the arrangement loops
\* of _parse_track)
RECURSIVE ParseClips(_, _)
ParseClips(elems, is_midi) ==
    IF elems = <<>> THEN Ok(<<>>)
    ELSE Then(ParseClip(Head(elems), is_midi, None), LAMBDA clip :
         Then(ParseClips(Tail(elems), is_midi), LAMBDA rest :
              Ok(<<Parsed(clip, Head(elems))>> \o rest)))

\* _parse_clip_slot: the clip of one kind in the Value of a slot
SlotClip(value_elem, tag, is_midi, scene_idx) ==
    Let(find(value_elem, FALSE, <<tag>>), LAMBDA clip_elem :
        IF clip_elem = None THEN Ok(<<>>)
        ELSE Then(ParseClip(clip_elem[1], is_midi, Some(scene_idx)), LAMBDA clip :
                  Ok(<<Parsed(clip, clip_elem[1])>>)))

\* AbletonParser._parse_clip_slot: the clips the slot adds to track.clips
_parse_clip_slot(slot_elem, scene_idx) ==
    Let(find(slot_elem, FALSE, <<"Value">>), LAMBDA value_elem :
        IF value_elem = None THEN Ok(<<>>)
        ELSE Then(SlotClip(value_elem[1], "MidiClip", TRUE, scene_idx), LAMBDA midi :
             Then(SlotClip(value_elem[1], "AudioClip", FALSE, scene_idx), LAMBDA audio :
                  Ok(midi \o audio))))

\* the ClipSlot loop of _parse_track, from scene scene_idx on
RECURSIVE ParseClipSlots(_, _)
ParseClipSlots(slots, scene_idx) ==
    IF slots = <<>> THEN Ok(<<>>)
    ELSE Then(_parse_clip_slot(Head(slots), scene_idx), LAMBDA here :
         Then(ParseClipSlots(Tail(slots), scene_idx + 1), LAMBDA rest :
              Ok(here \o rest)))

\* the fallback sweep of _parse_track over the clip elements of one kind: an
\* element is parsed unless a clip of that name is in track.clips already
RECURSIVE SweepClips(_, _, _)
SweepClips(elems, parsed, is_midi) ==
    IF elems = <<>> THEN Ok(parsed)
    ELSE IF \E i \in 1..Len(parsed) : parsed[i].clip.name = _get_clip_name(Head(elems))
    THEN SweepClips(Tail(elems), parsed, is_midi)
    ELSE Then(ParseClip(Head(elems), is_midi, None), LAMBDA clip :
              SweepClips(Tail(elems), Append(parsed, Parsed(clip, Head(elems))), is_midi))

\* AbletonParser._get_volume and _get_pan: the Manual value, the default when
\* the element is missing or its value is no number
ManualValue(track_elem, tag, default_str, default) ==
    Let(find(track_elem, TRUE, <<tag, "Manual">>), LAMBDA manual :
        IF manual = None THEN default
        ELSE Let(float_of_str(ElementGet(manual[1], "Value", default_str)),
                 LAMBDA value : IF value.err = "" THEN value.val ELSE default))

_get_volume(track_elem) == ManualValue(track_elem, "Volume", S_1_0, RatOne)
_get_pan(track_elem) == ManualValue(track_elem, "Pan", S_0_0, RatZero)

-----------------------------------------------------------------------------
(* AbletonParser._parse_track: the clip search, one action per location *)

MaxSlots == 2       \* clip slots of the track
MaxArranged == 1    \* clips on the arrangement timeline of the track

S_x == <<120>>                                                   \* 'x'
S_8 == <<56>>                                                    \* '8'
S_0_5 == <<48, 46, 53>>                                          \* '0.5'
S_127 == <<49, 50, 55>>                                          \* '127'

Leaf(tag, value) == Element(tag, {<<"Value", value>>}, <<>>)

KeyTrackChildren ==
    <<Element("Notes", {}, <<Element("KeyTracks", {}, <<
        Element("KeyTrack", {}, <<
            Element("Notes", {}, <<
                Element("MidiNoteEvent",
                        {<<"Time", S_0>>, <<"Duration", S_0_5>>, <<"Velocity", S_127>>},
                        <<>>)>>),
            Leaf("MidiKey", S_60)>>)>>)>>)>>

SampleRefChildren ==
    <<Element("SampleRef", {}, <<Element("FileRef", {}, <<Leaf("Path", S_KickWav)>>)>>)>>

\* a clip: its tag and its children
Choice(tag, children) == [tag |-> tag, children |-> children]

\* the clips a slot is given: MIDI clips with each kind of Name child, an
\* audio clip without one
SlotClipChoices ==
    { Choice("MidiClip", name) :
        name \in { <<>>, <<Element("Name", {}, <<>>)>>, <<Leaf("Name", <<>>)>>,
                   <<Leaf("Name", S_A)>> } }
    \cup { Choice("AudioClip", <<>>) }

\* the clips the timeline is given: with a name, notes, times, a sample
ArrangedChoices ==
    { Choice("MidiClip", <<>>),
      Choice("MidiClip", <<Leaf("Name", S_MIDIClip)>>),
      Choice("MidiClip", <<Leaf("Name", S_A)>> \o KeyTrackChildren),
      Choice("MidiClip", <<Leaf("Name", S_A), Leaf("CurrentStart", S_4),
                           Leaf("CurrentEnd", S_8)>>),
      Choice("AudioClip", <<Leaf("Name", S_A)>> \o SampleRefChildren) }

\* the clips found outside the slot list and the timeline
LooseChoices ==
    { Choice("MidiClip", <<>>),
      Choice("MidiClip", <<Leaf("CurrentStart", S_x)>>),
      Choice("AudioClip", <<Leaf("Name", S_Foo)>>) }

ClipElement(choice, id) == Element(choice.tag, {<<"Id", Str(id)>>}, choice.children)

\* a slot holds a clip or nothing
SlotChoices == SlotClipChoices \cup {Choice("", <<>>)}

ClipSlot(choice, id) ==
    Element("ClipSlot", {},
            IF choice.tag = "" THEN <<>>
            ELSE <<Element("Value", {}, <<ClipElement(choice, id)>>)>>)

\* a track element: its name and mixer, its slot list and its timeline inside
\* the main sequencer, and the clips elsewhere below the track
TrackElement(slots, arranged, loose) ==
    Element("MidiTrack", {<<"Id", S_0>>},
        <<Element("Name", {}, <<Leaf("EffectiveName", S_Lead)>>),
          Element("DeviceChain", {}, <<
              Element("Mixer", {}, <<
                  Element("Volume", {}, <<Leaf("Manual", S_0_5)>>),
                  Element("Pan", {}, <<Leaf("Manual", S_x)>>)>>),
              Element("MainSequencer", {}, <<
                  Element("ClipSlotList", {},
                          [i \in 1..Len(slots) |-> ClipSlot(slots[i], i)]),
                  Element("ClipTimeable", {}, <<
                      Element("ArrangerAutomation", {}, <<
                          Element("Events", {},
                                  [i \in 1..Len(arranged) |->
                                      ClipElement(arranged[i], MaxSlots + 1 + i)])>>)>>)>>)>>)>>
        \o [i \in 1..Len(loose) |-> ClipElement(loose[i], 0)])

SeqsUpTo(S, n) == UNION { [1..k -> S] : k \in 0..n }

InitParser ==
    /\ pc = "track"
    /\ \E slots \in SeqsUpTo(SlotChoices, MaxSlots),
          arranged \in SeqsUpTo(ArrangedChoices, MaxArranged),
          loose \in SeqsUpTo(LooseChoices, 1) :
            input = TrackElement(slots, arranged, loose)
    /\ ptrack = None
    /\ clip_source = <<>>
    /\ output = <<>>
    /\ transproj = TransProj(<<>>, Rat(120, 1), 96, <<>>)
    /\ self_ppq = DEFAULT_PPQ
    /\ data = <<>>
    /\ header = [channels |-> 0, ppq |-> 0]
    /\ idx = 0
    /\ track_idx = 0
    /\ clip_idx = 0
    /\ pattern_count = 0
    /\ playlist_items = <<>>
    /\ error = ""
    /\ files = {}
    /\ filepath = <<>>
    /\ use_pyflp = FALSE
    /\ result = None

notParser == <<transproj, data, header, idx, track_idx, clip_idx, pattern_count,
               playlist_items, self_ppq, input, output, conv>>

\* track.clips with the element of each clip
ParsedSoFar == [i \in 1..Len(ptrack.clips) |-> Parsed(ptrack.clips[i], clip_source[i])]

\* the next position of _parse_track after a location was searched: r is the
\* new content of track.clips, or the exception that left _parse_track
Searched(r, next) ==
    IF r.err = ""
    THEN /\ ptrack' = [ptrack EXCEPT !.clips = [i \in 1..Len(r.val) |-> r.val[i].clip]]
         /\ clip_source' = [i \in 1..Len(r.val) |-> r.val[i].elem]
         /\ pc' = next
         /\ UNCHANGED error
    ELSE /\ pc' = "raised"
         /\ error' = r.err
         /\ UNCHANGED parser

\* _parse_track: the Track created from the name and the mixer of the element
\* (color, muted and solo are read by no writer and are left out)
NewTrack(track_elem) ==
    Track(FindValue(track_elem, TRUE, <<"Name", "EffectiveName">>, S_Track, S_Track),
          _get_volume(track_elem), _get_pan(track_elem), <<>>, None, <<>>, <<>>)

\* _parse_track, 1: the clips of the slots of the first ClipSlotList
SlotListClips(track_elem) ==
    Let(find(track_elem, TRUE, <<"ClipSlotList">>), LAMBDA clip_slots :
        IF clip_slots # None /\ ElementTruth(clip_slots[1])
        THEN ParseClipSlots(findall(clip_slots[1], FALSE, <<"ClipSlot">>), 0)
        ELSE Ok(<<>>))

\* _parse_track, 2: the clips below the events of the arrangement, the MIDI
\* clips before the audio clips
ArrangementClips(track_elem) ==
    Let(find(track_elem, TRUE,
             <<"MainSequencer", "ClipTimeable", "ArrangerAutomation", "Events">>),
        LAMBDA events :
            IF events # None /\ ElementTruth(events[1])
            THEN Then(ParseClips(findall(events[1], TRUE, <<"MidiClip">>), TRUE), LAMBDA midi :
                 Then(ParseClips(findall(events[1], TRUE, <<"AudioClip">>), FALSE), LAMBDA audio :
                      Ok(midi \o audio)))
            ELSE Ok(<<>>))

CreateTrack ==
    /\ pc = "track"
    /\ ptrack' = NewTrack(input)
    /\ pc' = "slots"
    /\ UNCHANGED <<clip_source, error, notParser>>

ParseClipSlotList ==
    /\ pc = "slots"
    /\ \E r \in {Then(SlotListClips(input), LAMBDA clips : Ok(ParsedSoFar \o clips))} :
          Searched(r, "arrangement")
    /\ UNCHANGED notParser

ParseArrangement ==
    /\ pc = "arrangement"
    /\ \E r \in {Then(ArrangementClips(input), LAMBDA clips : Ok(ParsedSoFar \o clips))} :
          Searched(r, "sweep_midi")
    /\ UNCHANGED notParser

\* _parse_track, 3: every MidiClip below the track whose name no clip of
\* track.clips has
SweepMidiClips ==
    /\ pc = "sweep_midi"
    /\ \E r \in {SweepClips(findall(input, TRUE, <<"MidiClip">>), ParsedSoFar, TRUE)} :
          Searched(r, "sweep_audio")
    /\ UNCHANGED notParser

\* _parse_track, 3: the same for every AudioClip; _parse_devices follows and
\* leaves track.clips alone
SweepAudioClips ==
    /\ pc = "sweep_audio"
    /\ \E r \in {SweepClips(findall(input, TRUE, <<"AudioClip">>), ParsedSoFar, FALSE)} :
          Searched(r, "devices")
    /\ UNCHANGED notParser

NextParser ==
    \/ CreateTrack
    \/ ParseClipSlotList
    \/ ParseArrangement
    \/ SweepMidiClips
    \/ SweepAudioClips

SpecParser == InitParser /\ [][NextParser]_vars

\* the clip elements of one tag _parse_track reaches through the slot list or
\* through the events of the arrangement
ListedClips(tag) ==
    Range(findall(input, TRUE, <<"ClipSlotList", "ClipSlot", "Value", tag>>))
    \cup UNION { Range(findall(events, TRUE, <<tag>>)) :
                    events \in Range(findall(input, TRUE,
                        <<"MainSequencer", "ClipTimeable", "ArrangerAutomation", "Events">>)) }

ListedClipElements == ListedClips("MidiClip") \cup ListedClips("AudioClip")

\* the clip elements the fallback sweep visits
SweptClipElements ==
    Range(findall(input, TRUE, <<"MidiClip">>)) \cup Range(findall(input, TRUE, <<"AudioClip">>))

\* the number of Clips of track.clips parsed from a clip element
Contributions(elem) == Cardinality({i \in 1..Len(clip_source) : clip_source[i] = elem})

\* C7: when the clip search of a track is over, every clip element reachable
\* both through the slot list or the arrangement events and through the
\* fallback sweep has contributed exactly one Clip to the track, whether or
\* not the clip has a name element or a name value.
C7_CountedOnce ==
    pc = "devices" =>
        \A elem \in ListedClipElements \cap SweptClipElements : Contributions(elem) = 1

-----------------------------------------------------------------------------
(* PluginMapper.map_parameter_value over every parameter of the range table *)
(* and parameters outside it                                                *)

\* every variable but pc, input, output and error, at rest
Idle ==
    /\ transproj = TransProj(<<>>, Rat(120, 1), 96, <<>>)
    /\ self_ppq = DEFAULT_PPQ
    /\ data = <<>>
    /\ header = [channels |-> 0, ppq |-> 0]
    /\ idx = 0
    /\ track_idx = 0
    /\ clip_idx = 0
    /\ pattern_count = 0
    /\ playlist_items = <<>>
    /\ files = {}
    /\ filepath = <<>>
    /\ use_pyflp = FALSE
    /\ result = None
    /\ ptrack = None
    /\ clip_source = <<>>

RatEq(a, b) == a.n * b.d = b.n * a.d

ParamNames == {p[1] : p \in PARAMETER_RANGES} \cup {<<>>, S_Foo}

\* the ends and the midpoints of the source ranges, values between them and
\* values outside every range
ParamValues ==
    { Rat(-2, 1), Rat(-1, 1), Rat(0, 1), Rat(1, 2), Rat(1, 1), Rat(2, 1),
      Rat(5, 2), Rat(5, 1), Rat(6, 1), Rat(20, 1), Rat(10010, 1),
      Rat(20000, 1), Rat(20001, 1) }

InitParam ==
    /\ pc = "param"
    /\ input \in [param_name : ParamNames, ableton_value : ParamValues]
    /\ output = <<>>
    /\ error = ""
    /\ Idle

\* PluginMapper.map_parameter_value(param_name, ableton_value)
MapParameterValue ==
    /\ pc = "param"
    /\ output' = map_parameter_value(input.param_name, input.ableton_value)
    /\ pc' = "param_mapped"
    /\ UNCHANGED <<transproj, data, header, idx, track_idx, clip_idx, pattern_count,
                   playlist_items, self_ppq, error, input, conv, parser>>

NextParam == MapParameterValue

SpecParam == InitParam /\ [][NextParam]_vars

\* the row of the range table: <<able_min, able_max, fl_min, fl_max>>
ParamRange(param_name) == DictGet(PARAMETER_RANGES, param_name, <<>>)

\* C11: for a parameter of the range table, map_parameter_value maps the
\* source minimum to the target minimum, the source maximum to the target
\* maximum and the midpoint to the midpoint, and is the affine map through
\* those points for every other value, including values outside the source
\* range (no clamping); a parameter outside the table gets its value back.
C11_AffineRemap ==
    pc = "param_mapped" =>
        LET v == input.ableton_value
            r == ParamRange(input.param_name)
        IN  IF ~DictHas(PARAMETER_RANGES, input.param_name) THEN output = v
            ELSE /\ RatEq(v, Rat(r[1], 1)) => RatEq(output, Rat(r[3], 1))
                 /\ RatEq(v, Rat(r[2], 1)) => RatEq(output, Rat(r[4], 1))
                 /\ RatEq(v, Rat(r[1] + r[2], 2)) => RatEq(output, Rat(r[3] + r[4], 2))
                 \* (output - fl_min) * (able_max - able_min)
                 \*     = (v - able_min) * (fl_max - fl_min)
                 /\ RatEq(RatMulInt(RatSub(output, Rat(r[3], 1)), r[2] - r[1]),
                          RatMulInt(RatSub(v, Rat(r[1], 1)), r[4] - r[3]))
                 /\ RatGt(v, Rat(r[2], 1)) => RatGt(output, Rat(r[4], 1))
                 /\ RatGt(Rat(r[1], 1), v) => RatGt(Rat(r[3], 1), output)

\* 'FilterFreq' at the midpoint 10010 of 20..20000 gives 50, and beyond the
\* maximum gives more than 100
C11_Witness ==
    /\ pc = "param_mapped"
    /\ DictHas(PARAMETER_RANGES, input.param_name)
    /\ ParamRange(input.param_name)[1] = 20
    /\ \/ input.ableton_value = Rat(10010, 1) /\ RatEq(output, Rat(50, 1))
       \/ input.ableton_value = Rat(20001, 1) /\ RatGt(output, Rat(100, 1))

-----------------------------------------------------------------------------
(* TransProj.total_clips and TransProj.total_notes on a project under       *)
(* construction                                                             *)

\* for clip in track.clips: count += len(clip.notes)
RECURSIVE CountClipNotes(_, _)
CountClipNotes(clips, count) ==
    IF clips = <<>> THEN count
    ELSE CountClipNotes(Tail(clips), count + Len(Head(clips).notes))

\* faulty variant of total_notes: every clip counts as one note
RECURSIVE total_notes_per_clip(_, _)
total_notes_per_clip(tracks, count) ==
    IF tracks = <<>> THEN count
    ELSE total_notes_per_clip(Tail(tracks), count + Len(Head(tracks).clips))

\* TransProj.total_notes: count = 0, then the loop over self.tracks
RECURSIVE total_notes(_, _)
total_notes(tracks, count) ==
    IF tracks = <<>> THEN count
    ELSE total_notes(Tail(tracks), CountClipNotes(Head(tracks).clips, count))

\* clip.notes.append(note) on the last clip of the track added last; a clip
\* holds at most MaxNotes + 1 notes
AppendNote ==
    /\ pc = "build"
    /\ transproj.tracks # <<>>
    /\ LET t == Len(transproj.tracks)
           c == Len(transproj.tracks[t].clips)
       IN  /\ c > 0
           /\ transproj.tracks[t].clips[c].is_midi
           /\ Len(transproj.tracks[t].clips[c].notes) <= MaxNotes
           /\ transproj' = [transproj EXCEPT !.tracks[t].clips[c].notes =
                                Append(@, NoteAt(Len(@) + 1))]
    /\ UNCHANGED <<pc, self_ppq, data, header, idx, track_idx, clip_idx, pattern_count,
                   playlist_items, error, input, output>>
    /\ UNCHANGED <<conv, parser>>

\* project.total_clips(); input keeps the query and the project it was asked of
CountClips ==
    /\ pc = "build"
    /\ output' = total_clips(transproj.tracks)
    /\ input' = [query |-> "total_clips", project |-> transproj]
    /\ pc' = "counted"
    /\ UNCHANGED <<transproj, self_ppq, data, header, idx, track_idx, clip_idx,
                   pattern_count, playlist_items, error>>
    /\ UNCHANGED <<conv, parser>>

\* project.total_notes()
CountNotes ==
    /\ pc = "build"
    /\ output' = total_notes(transproj.tracks, 0)
    /\ input' = [query |-> "total_notes", project |-> transproj]
    /\ pc' = "counted"
    /\ UNCHANGED <<transproj, self_ppq, data, header, idx, track_idx, clip_idx,
                   pattern_count, playlist_items, error>>
    /\ UNCHANGED <<conv, parser>>

\* the caller goes on building the project
Counted ==
    /\ pc = "counted"
    /\ pc' = "build"
    /\ UNCHANGED <<transproj, self_ppq, data, header, idx, track_idx, clip_idx,
                   pattern_count, playlist_items, error, input, output>>
    /\ UNCHANGED <<conv, parser>>

NextCount ==
    \/ add_track
    \/ AppendClip
    \/ AppendNote
    \/ CountClips
    \/ CountNotes
    \/ Counted

SpecCount == Init /\ [][NextCount]_vars

\* the clips of a project, and its notes, by their places
ClipPlaces(project) ==
    { <<t, c>> \in (1..MaxTracks) \X (1..MaxClips) :
        t <= Len(project.tracks) /\ c <= Len(project.tracks[t].clips) }
NotePlaces(project) ==
    { <<p, n>> \in ClipPlaces(project) \X (1..(MaxNotes + 1)) :
        n <= Len(project.tracks[p[1]].clips[p[2]].notes) }

\* C12: after any sequence of add_track calls and appends of clips and notes,
\* total_clips() is the number of clips of all tracks and total_notes() the
\* number of notes of all clips of all tracks, and the project is the same
\* after the query as before it.
C12_TotalsAreSums ==
    pc = "counted" =>
        /\ transproj = input.project
        /\ input.query = "total_clips" => output = Cardinality(ClipPlaces(transproj))
        /\ input.query = "total_notes" => output = Cardinality(NotePlaces(transproj))

\* two tracks, the first with a clip of two notes, the second with two clips
\* of which one has a note: 3 clips, 3 notes
C12_Witness ==
    /\ pc = "counted"
    /\ input.query = "total_notes"
    /\ Len(transproj.tracks) = 2
    /\ Len(transproj.tracks[1].clips) = 1
    /\ Len(transproj.tracks[1].clips[1].notes) = 2
    /\ Len(transproj.tracks[2].clips) = 2
    /\ output = 3

-----------------------------------------------------------------------------
(* FLStudioWriter._write_pattern on one MIDI clip                           *)

\* at most MaxPatternNotes notes in the clip
MaxPatternNotes == 2

\* positions and durations in beats whose tick values are whole and
\* fractional: 1/128 beat is 0.75 tick at 96 ppq and 7.5 ticks at 960 ppq
PatternTimes ==
    { <<RatZero, RatOne>>, <<Rat(1, 128), Rat(3, 256)>>, <<Rat(2, 1), RatHalf>>,
      <<RatHalf, RatZero>> }

\* keys with velocities: 0.5 * 127 = 63.5 and 0.25 * 127 = 31.75
PatternKeys ==
    { <<60, RatOne>>, <<64, RatHalf>>, <<0, RatZero>>, <<127, Rat(1, 4)>> }

PatternNotes ==
    { Note(t[1], t[2], k[1], k[2]) : t \in PatternTimes, k \in PatternKeys }

\* clips of up to MaxPatternNotes notes, and one of six notes, whose note block
\* of 144 bytes has a length prefix of two bytes
PatternClips ==
    { Clip(S_A, RatZero, Rat(4, 1), notes, <<>>, TRUE, scene) :
        notes \in SeqsUpTo(PatternNotes, MaxPatternNotes) \cup {[i \in 1..6 |-> NoteAt(i)]},
        scene \in {None, Some(0)} }

InitPattern ==
    /\ pc = "pattern"
    /\ \E clip \in PatternClips, pattern_idx \in {0, 65535}, track_idx_ \in {0, 1} :
          input = [pattern_idx |-> pattern_idx, track_idx |-> track_idx_,
                   track_name |-> S_Lead, clip |-> clip]
    /\ output = <<>>
    /\ error = ""
    /\ transproj = TransProj(<<>>, Rat(120, 1), 96, <<>>)
    /\ self_ppq \in {96, DEFAULT_PPQ}
    /\ data = <<>>
    /\ header = [channels |-> 0, ppq |-> 0]
    /\ idx = 0
    /\ track_idx = 0
    /\ clip_idx = 0
    /\ pattern_count = 0
    /\ playlist_items = <<>>
    /\ files = {}
    /\ filepath = <<>>
    /\ use_pyflp = FALSE
    /\ result = None
    /\ ptrack = None
    /\ clip_source = <<>>

\* self._write_pattern(data, pattern_idx, track_idx, track.name, clip)
WriteOnePattern ==
    /\ pc = "pattern"
    /\ \E r \in {_write_pattern(input.pattern_idx, input.track_idx, input.track_name,
                                input.clip, self_ppq)} :
          IF r.err = ""
          THEN /\ data' = r.val
               /\ pc' = "pattern_written"
               /\ UNCHANGED error
          ELSE /\ pc' = "raised"
               /\ error' = r.err
               /\ UNCHANGED data
    /\ UNCHANGED <<transproj, header, idx, track_idx, clip_idx, pattern_count,
                   playlist_items, self_ppq, input, output, conv, parser>>

NextPattern == WriteOnePattern

SpecPattern == InitPattern /\ [][NextPattern]_vars

\* reading the bytes back
RECURSIVE LittleEndianValue(_)
LittleEndianValue(bytes) ==
    IF bytes = <<>> THEN 0 ELSE Head(bytes) + 256 * LittleEndianValue(Tail(bytes))

\* the length of the base-128 number at the start of `bytes`: up to the first
\* byte with a clear high bit
RECURSIVE VarintLen(_)
VarintLen(bytes) ==
    IF bytes = <<>> THEN 0
    ELSE IF Head(bytes) < 128 THEN 1 ELSE 1 + VarintLen(Tail(bytes))

\* sum of (byte mod 128) * 128^i
RECURSIVE VarintValue(_)
VarintValue(bytes) ==
    IF bytes = <<>> THEN 0 ELSE (Head(bytes) % 128) + 128 * VarintValue(Tail(bytes))

\* what follows the length prefix of a payload
AfterVarint(payload) == SubSeq(payload, VarintLen(payload) + 1, Len(payload))

\* the note-block events of a pattern record and the k-th 24-byte record of a
\* note block
NoteBlocks(events) == SelectSeq(events, LAMBDA ev : ev.tag = EV_CHAN_NAME)
NoteRecord(block, k) == SubSeq(AfterVarint(block.payload), 24 * (k - 1) + 1, 24 * k)

\* the integer k is less than one away from x
WithinOne(k, x) == RatGt(Rat(k + 1, 1), x) /\ RatGt(RatAdd(x, RatOne), Rat(k, 1))

\* round(x) of a float x >= 0: the nearest integer, a fractional part of 0.5
\* or more going up
RoundHalfUp(x) == (2 * x.n + x.d) \div (2 * x.d)

\* C13 (as stated): the tick position and the tick duration written for a note
\* are round(position * ppq) and round(duration * ppq).
C13_TicksRounded ==
    pc = "pattern_written" =>
        \A k \in 1..Len(input.clip.notes) :
            LET note == input.clip.notes[k]
                rec == NoteRecord(NoteBlocks(data)[1], k)
            IN  /\ LittleEndianValue(SubSeq(rec, 1, 4))
                      = RoundHalfUp(RatMulInt(note.position, self_ppq))
                /\ LittleEndianValue(SubSeq(rec, 9, 12))
                      = RoundHalfUp(RatMulInt(note.duration, self_ppq))

-----------------------------------------------------------------------------
(* parsers/ableton_parser.py: the devices of a track                        *)

\* str operations on code-point sequences
StartsWith(s, prefix) == Len(s) >= Len(prefix) /\ SubSeq(s, 1, Len(prefix)) = prefix

\* `sub in s`
Contains(s, sub) == \E i \in 0..(Len(s) - Len(sub)) : SubSeq(s, i + 1, i + Len(sub)) = sub

\* s.replace(old, ''), old not empty
RECURSIVE Remove(_, _)
Remove(s, old) ==
    IF s = <<>> THEN <<>>
    ELSE IF StartsWith(s, old) THEN Remove(SubSeq(s, Len(old) + 1, Len(s)), old)
    ELSE <<Head(s)>> \o Remove(Tail(s), old)

S_Device == <<68, 101, 118, 105, 99, 101>>         \* 'Device'
S_Group == <<71, 114, 111, 117, 112>>               \* 'Group'
S_Instrument == <<73, 110, 115, 116, 114, 117, 109, 101, 110, 116>>   \* 'Instrument'
S_Pad == <<80, 97, 100, 32>>                     \* 'Pad '

\* the text of the tag of a device element
TagText(tag) ==
    CASE tag = "DrumGroupDevice" -> S_DrumGroupDevice
      [] tag = "InstrumentGroupDevice" -> S_InstrumentGroupDevice
      [] tag = "AudioEffectGroupDevice" -> 
           <<65, 117, 100, 105, 111, 69, 102, 102, 101, 99, 116, 71, 114, 111, 117, 112, 68, 101, 118, 105, 99, 101>>
      [] tag = "OriginalSimpler" -> 
           <<79, 114, 105, 103, 105, 110, 97, 108, 83, 105, 109, 112, 108, 101, 114>>
      [] tag = "MultiSampler" -> 
           <<77, 117, 108, 116, 105, 83, 97, 109, 112, 108, 101, 114>>
      [] tag = "Reverb" -> S_Reverb
      [] tag = "InstrumentVector" -> 
           <<73, 110, 115, 116, 114, 117, 109, 101, 110, 116, 86, 101, 99, 116, 111, 114>>

\* AbletonParser._get_device_name
_get_device_name(device_elem) ==
    Let(FindValue(device_elem, TRUE, <<"UserName">>, <<>>, <<>>), LAMBDA name :
        IF name # <<>> THEN name
        ELSE Remove(Remove(TagText(device_elem.tag), S_Device), S_Group))

\* AbletonParser._get_sample_path
_get_sample_path(device_elem) ==
    Let(find(device_elem, TRUE, <<"SampleRef", "FileRef">>), LAMBDA sample_ref :
        IF sample_ref # None /\ ElementTruth(sample_ref[1])
        THEN Let(FindValue(sample_ref[1], TRUE, <<"RelativePath">>, <<>>, <<>>),
                 LAMBDA value :
                     IF value # <<>> THEN value
                     ELSE FindValue(sample_ref[1], TRUE, <<"Path">>, <<>>, <<>>))
        ELSE <<>>)

\* _parse_drum_rack: the sample path of the first Simpler or Sampler of a pad
PadSamplePath(devices) ==
    Let(SelectSeq(devices, LAMBDA d : d.tag \in {"OriginalSimpler", "MultiSampler"}),
        LAMBDA samplers : IF samplers = <<>> THEN <<>> ELSE _get_sample_path(samplers[1]))

\* f'Pad {idx + 1}'
PadName(idx_) == S_Pad \o Str(idx_ + 1)

\* _parse_drum_rack: the pad of one branch, None when the loop skips it
BranchPad(branch, idx_) ==
    Let(find(branch, TRUE, <<"DrumBranch">>), LAMBDA drum_branch :
        IF drum_branch = None THEN None
        ELSE Let(find(drum_branch[1], TRUE, <<"DeviceChain">>), LAMBDA chain :
             IF chain = None THEN None
             ELSE Let(find(chain[1], TRUE, <<"Devices">>), LAMBDA devices :
                  IF devices = None \/ Len(devices[1].children) = 0 THEN None
                  ELSE Some(DrumPad(idx_,
                                    FindValue(drum_branch[1], TRUE, <<"Name">>,
                                              PadName(idx_), PadName(idx_)),
                                    PadSamplePath(devices[1].children),
                                    36 + idx_, RatOne, RatZero)))))

\* AbletonParser._parse_drum_rack
_parse_drum_rack(device_elem) ==
    Let(find(device_elem, TRUE, <<"Branches">>), LAMBDA branches :
        Rack(_get_device_name(device_elem), None, <<>>,
             IF branches # None /\ ElementTruth(branches[1])
             THEN Flatten([i \in 1..Len(branches[1].children) |->
                              BranchPad(branches[1].children[i], i - 1)])
             ELSE <<>>))

\* _parse_instrument_rack, _parse_fx_rack: the plugins of one chain
ChainPlugins(chain, is_instrument) ==
    Let(find(chain, TRUE, <<"DeviceChain", "Devices">>), LAMBDA devices :
        IF devices # None /\ ElementTruth(devices[1])
        THEN [i \in 1..Len(devices[1].children) |->
                 Plugin(_get_device_name(devices[1].children[i]), S_Ableton,
                        is_instrument, None, <<>>)]
        ELSE <<>>)

\* _parse_instrument_rack (is_instrument) and _parse_fx_rack
ParseRack(device_elem, is_instrument) ==
    Let(find(device_elem, TRUE, <<"Chains">>), LAMBDA chains :
        Rack(_get_device_name(device_elem), None,
             IF chains # None /\ ElementTruth(chains[1])
             THEN Flatten([i \in 1..Len(chains[1].children) |->
                              ChainPlugins(chains[1].children[i], is_instrument)])
             ELSE <<>>,
             <<>>))

_parse_instrument_rack(device_elem) == ParseRack(device_elem, TRUE)
_parse_fx_rack(device_elem) == ParseRack(device_elem, FALSE)

\* _parse_devices: the body of the loop over the devices, on one device
ParseDevice(track, device) ==
    Let(_get_device_name(device), LAMBDA device_name :
        IF device.tag = "DrumGroupDevice"
        THEN [track EXCEPT !.racks = Append(@, _parse_drum_rack(device))]
        ELSE IF device.tag = "InstrumentGroupDevice"
        THEN [track EXCEPT !.racks = Append(@, _parse_instrument_rack(device))]
        ELSE IF device.tag = "AudioEffectGroupDevice"
        THEN [track EXCEPT !.racks = Append(@, _parse_fx_rack(device))]
        ELSE IF Contains(device_name, S_Instrument)
                \/ device.tag \in {"OriginalSimpler", "MultiSampler"}
        THEN [track EXCEPT !.instrument =
                  Some(Plugin(device_name, S_Ableton, TRUE, None, <<>>))]
        ELSE [track EXCEPT !.effects =
                  Append(@, Plugin(device_name, S_Ableton, FALSE, None, <<>>))])

RECURSIVE ParseDeviceList(_, _)
ParseDeviceList(track, devices) ==
    IF devices = <<>> THEN track
    ELSE ParseDeviceList(ParseDevice(track, Head(devices)), Tail(devices))

\* AbletonParser._parse_devices: the track after the call; the main chain
\* './/DeviceChain/Devices' is searched first, then './/Devices'
_parse_devices(track_elem, track) ==
    Let(find(track_elem, TRUE, <<"DeviceChain", "Devices">>), LAMBDA main_chain :
    Let(find(track_elem, TRUE, <<"Devices">>), LAMBDA direct_devices :
        ParseDeviceList(track,
            (IF main_chain # None THEN main_chain[1].children ELSE <<>>)
            \o (IF direct_devices # None THEN direct_devices[1].children ELSE <<>>))))

\* the clips of the pairs kept while a track is searched
ClipsOf(parsed) == [i \in 1..Len(parsed) |-> parsed[i].clip]

\* AbletonParser._parse_track: the Track returned, or the exception raised
_parse_track(track_elem) ==
    Then(SlotListClips(track_elem), LAMBDA slots :
    Then(ArrangementClips(track_elem), LAMBDA arranged :
    Then(SweepClips(findall(track_elem, TRUE, <<"MidiClip">>), slots \o arranged, TRUE),
         LAMBDA midi :
    Then(SweepClips(findall(track_elem, TRUE, <<"AudioClip">>), midi, FALSE),
         LAMBDA all :
         Ok(_parse_devices(track_elem,
                           [NewTrack(track_elem) EXCEPT !.clips = ClipsOf(all)]))))))

S_120 == <<49, 50, 48>>                                          \* '120'

\* AbletonParser._get_tempo
_get_tempo(liveset) ==
    Let(find(liveset, TRUE, <<"Tempo", "Manual">>), LAMBDA tempo_elem :
        IF tempo_elem = None THEN Rat(120, 1)
        ELSE Let(float_of_str(ElementGet(tempo_elem[1], "Value", S_120)), LAMBDA value :
                 IF value.err = "" THEN value.val ELSE Rat(120, 1)))

\* parse: the loop over the children of the Tracks element
RECURSIVE ParseTracks(_)
ParseTracks(track_elems) ==
    IF track_elems = <<>> THEN Ok(<<>>)
    ELSE IF Head(track_elems).tag \in {"MidiTrack", "AudioTrack", "ReturnTrack"}
    THEN Then(_parse_track(Head(track_elems)), LAMBDA track :
         Then(ParseTracks(Tail(track_elems)), LAMBDA rest : Ok(<<track>> \o rest)))
    ELSE ParseTracks(Tail(track_elems))

\* AbletonParser.parse on the root element read from the file `path`: the
\* TransProj returned, or the exception raised
parse(path, root) ==
    Let(IF root.tag = "Ableton" THEN Some(root) ELSE find(root, TRUE, <<"Ableton">>),
        LAMBDA liveset :
        IF liveset = None THEN Raise("ValueError")
        ELSE Let(find(liveset[1], TRUE, <<"Tracks">>), LAMBDA tracks_elem :
             Then(IF tracks_elem # None /\ ElementTruth(tracks_elem[1])
                  THEN ParseTracks(tracks_elem[1].children) ELSE Ok(<<>>),
                  LAMBDA tracks :
                      Ok(TransProj(PathStem(path), _get_tempo(liveset[1]), 96, tracks)))))

-----------------------------------------------------------------------------
(* End to end: AbletonParser.parse on a Live set with one MIDI track, then  *)
(* FLStudioWriter._build_flp_binary on the project parsed                   *)

S_song_als == <<115, 111, 110, 103, 46, 97, 108, 115>>    \* 'song.als'
S_128 == <<49, 50, 56>>                                          \* '128'
S_2 == <<50>>                                                    \* '2'
S_64 == <<54, 52>>                                               \* '64'
S_63_5 == <<54, 51, 46, 53>>                                     \* '63.5'

\* one KeyTrack holding one note
KeyTrack(key, time, duration, velocity) ==
    Element("KeyTrack", {}, <<
        Element("Notes", {}, <<
            Element("MidiNoteEvent",
                    {<<"Time", time>>, <<"Duration", duration>>, <<"Velocity", velocity>>},
                    <<>>)>>),
        Leaf("MidiKey", key)>>)

\* the clip of the set: beats 0 to 4, key 60 at beat 0 for a beat at full
\* velocity, key 64 at beat 2 for half a beat at half velocity
SetClip(name_children) ==
    Choice("MidiClip",
           name_children
           \o <<Leaf("CurrentStart", S_0), Leaf("CurrentEnd", S_4),
                Element("Notes", {}, <<Element("KeyTracks", {}, <<
                    KeyTrack(S_60, S_0, S_1, S_127),
                    KeyTrack(S_64, S_2, S_0_5, S_63_5)>>)>>)>>)

\* the Name child of the clip: none, one without Value, Value='', Value='A'
SetClipNames ==
    { <<>>, <<Element("Name", {}, <<>>)>>, <<Leaf("Name", <<>>)>>, <<Leaf("Name", S_A)>> }

\* the track 'Lead' with the clip in a slot, on the timeline or elsewhere
\* below the track, with or without a mixer and an empty device list
SetTrack(clip, place, mixer, devices) ==
    Element("MidiTrack", {<<"Id", S_0>>},
        <<Element("Name", {}, <<Leaf("EffectiveName", S_Lead)>>),
          Element("DeviceChain", {},
              (IF mixer
               THEN <<Element("Mixer", {}, <<Element("Volume", {}, <<Leaf("Manual", S_1)>>)>>)>>
               ELSE <<>>)
              \o <<Element("MainSequencer", {}, <<
                      Element("ClipSlotList", {},
                              IF place = "slot" THEN <<ClipSlot(clip, 1)>> ELSE <<>>),
                      Element("ClipTimeable", {}, <<
                          Element("ArrangerAutomation", {}, <<
                              Element("Events", {},
                                      IF place = "arrangement"
                                      THEN <<ClipElement(clip, 1)>> ELSE <<>>)>>)>>)>>)>>
              \o (IF devices THEN <<Element("Devices", {}, <<>>)>> ELSE <<>>))>>
        \o (IF place = "loose" THEN <<ClipElement(clip, 1)>> ELSE <<>>))

\* the Live set: the track and the tempo 128 of the master track
LiveSet(track_elem) ==
    Element("Ableton", {},
        <<Element("LiveSet", {},
            <<Element("Tracks", {}, <<track_elem>>),
              Element("MasterTrack", {}, <<
                  Element("DeviceChain", {}, <<
                      Element("Mixer", {}, <<
                          Element("Tempo", {}, <<Leaf("Manual", S_128)>>)>>)>>)>>)>>)>>)

InitEndToEnd ==
    /\ pc = "parse"
    /\ \E name \in SetClipNames, place \in {"slot", "arrangement", "loose"},
          mixer \in BOOLEAN, devices \in BOOLEAN :
          input = [path |-> S_song_als,
                   root |-> LiveSet(SetTrack(SetClip(name), place, mixer, devices))]
    /\ output = <<>>
    /\ error = ""
    /\ Idle

\* AbletonParser.parse(filepath) on the root element of the file
ParseFile ==
    /\ pc = "parse"
    /\ \E r \in {parse(input.path, input.root)} :
          IF r.err = ""
          THEN /\ transproj' = r.val
               /\ pc' = "build"
               /\ UNCHANGED error
          ELSE /\ pc' = "raised"
               /\ error' = r.err
               /\ UNCHANGED transproj
    /\ UNCHANGED <<data, header, idx, track_idx, clip_idx, pattern_count,
                   playlist_items, self_ppq, input, output, conv, parser>>

NextEndToEnd ==
    \/ ParseFile
    \/ NextBuild

SpecEndToEnd == InitEndToEnd /\ [][NextEndToEnd]_vars

\* the events of the pattern records: from the first pattern-start event on
PatternEvents(events) ==
    IF TagPositions(events, EV_NEW_PAT) = {} THEN <<>>
    ELSE SubSeq(events,
                CHOOSE i \in TagPositions(events, EV_NEW_PAT) :
                    \A j \in TagPositions(events, EV_NEW_PAT) : i <= j,
                Len(events))

\* C14 (as stated): the output for the set with the track 'Lead', tempo 128,
\* the clip with the notes (60, beat 0, 1 beat, velocity 1.0) and (64, beat 2,
\* half a beat, velocity 0.5) and no device has channel count 1, exactly one
\* pattern with exactly 2 note records with keys 60 and 64 and velocities 127
\* and 63, and a channel record with the default 3xOsc plugin state.
C14_EndToEnd ==
    pc = "done" =>
        /\ LittleEndianValue(SubSeq(output, 11, 12)) = 1
        /\ Cardinality(TagPositions(data, EV_NEW_PAT)) = 1
        /\ LET blocks == NoteBlocks(PatternEvents(data))
           IN  /\ Len(blocks) = 1
               /\ Len(AfterVarint(blocks[1].payload)) = 2 * 24
               /\ NoteRecord(blocks[1], 1)[13] = 60
               /\ NoteRecord(blocks[1], 1)[18] = 127
               /\ NoteRecord(blocks[1], 2)[13] = 64
               /\ NoteRecord(blocks[1], 2)[18] = 63
        /\ Len(PluginEvents) = 1
        /\ PluginBlob(PluginEvents[1]) = generate_3xosc_state(RatOne, 0, RatZero, RatZero).val

\* C15: the pattern record of a MIDI clip with n notes has a note-block event
\* iff n >= 1, and then exactly one, announced and actual payload length
\* 24 * n: one record per note in the clip's note order, with the track index
\* at bytes 6-7, the key at byte 12, pan 64 at byte 16, the velocity (scaled to
\* 0..127) at byte 17, and zero in every other byte beyond position (0-3) and
\* duration (8-11).
C15_NoteBlock ==
    pc = "pattern_written" =>
        LET n == Len(input.clip.notes)
            blocks == NoteBlocks(data)
        IN  /\ Len(blocks) = (IF n >= 1 THEN 1 ELSE 0)
            /\ n >= 1 =>
                  /\ VarintValue(SubSeq(blocks[1].payload, 1, VarintLen(blocks[1].payload)))
                        = 24 * n
                  /\ Len(AfterVarint(blocks[1].payload)) = 24 * n
                  /\ \A k \in 1..n :
                        LET note == input.clip.notes[k]
                            rec == NoteRecord(blocks[1], k)
                        IN  /\ LittleEndianValue(SubSeq(rec, 7, 8)) = input.track_idx
                            /\ rec[13] = note.key
                            /\ rec[17] = 64
                            /\ WithinOne(rec[18], RatMulInt(note.velocity, 127))
                            /\ \A b \in {5, 6, 14, 15, 16} \cup (19..24) : rec[b] = 0

\* a clip of two notes written for track 1, and the clip of six notes
C15_Witness ==
    /\ pc = "pattern_written"
    /\ input.track_idx = 1
    /\ \/ /\ Len(input.clip.notes) = 2
          /\ input.clip.notes[1].key # input.clip.notes[2].key
          /\ Len(NoteBlocks(data)[1].payload) = 1 + 48
       \/ /\ Len(input.clip.notes) = 6
          /\ Len(NoteBlocks(data)[1].payload) = 2 + 144

\* C16 (as stated): for a note with velocity v in [0.0, 1.0], byte 17 of its
\* note record is round(v * 127), the nearest integer, and lies in 0..127.
C16_VelocityRounded ==
    pc = "pattern_written" =>
        \A k \in 1..Len(input.clip.notes) :
            LET note == input.clip.notes[k]
                rec == NoteRecord(NoteBlocks(data)[1], k)
            IN  (~RatGt(RatZero, note.velocity) /\ ~RatGt(note.velocity, RatOne)) =>
                    /\ rec[18] = RoundHalfUp(RatMulInt(note.velocity, 127))
                    /\ rec[18] \in 0..127

-----------------------------------------------------------------------------
(* _build_flp_binary on projects whose clips start at different beats and   *)
(* last zero, negative, fractional and whole numbers of beats               *)

\* clips of one track: MIDI clips without notes and an audio clip, which the
\* pattern loop skips
PlaylistClips ==
    { Clip(S_A, t[1], t[2], <<>>, <<>>, TRUE, None) :
        t \in { <<RatZero, Rat(4, 1)>>, <<Rat(4, 1), RatZero>>,
                <<Rat(1, 128), RatHalf>>, <<Rat(2, 1), Rat(-1, 1)>> } }
    \cup { Clip(S_A, RatZero, Rat(4, 1), <<>>, S_KickWav, FALSE, None) }

\* at most two clips in a track
PlaylistTracks ==
    { Track(S_Lead, RatOne, RatZero, clips, None, <<>>, <<>>) :
        clips \in SeqsUpTo(PlaylistClips, 2) }

InitPlaylist ==
    /\ pc = "build"
    /\ \E tracks \in SeqsUpTo(PlaylistTracks, MaxTracks) :
          /\ tracks # <<>>
          /\ transproj = TransProj(S_Lead, Rat(120, 1), 96, tracks)
    /\ self_ppq = DEFAULT_PPQ
    /\ data = <<>>
    /\ header = [channels |-> 0, ppq |-> 0]
    /\ idx = 0
    /\ track_idx = 0
    /\ clip_idx = 0
    /\ pattern_count = 0
    /\ playlist_items = <<>>
    /\ error = ""
    /\ input = <<>>
    /\ output = <<>>
    /\ files = {}
    /\ filepath = <<>>
    /\ use_pyflp = FALSE
    /\ result = None
    /\ ptrack = None
    /\ clip_source = <<>>

SpecPlaylist == InitPlaylist /\ [][NextBuild]_vars

\* the MIDI clips of a project in the order of the pattern loop, each with the
\* index of its track
RECURSIVE MidiClipsInOrder(_, _)
MidiClipsInOrder(tracks, first_idx) ==
    IF tracks = <<>> THEN <<>>
    ELSE LET midi == SelectSeq(Head(tracks).clips, LAMBDA c : c.is_midi)
         IN  [i \in 1..Len(midi) |-> [track_idx |-> first_idx, clip |-> midi[i]]]
             \o MidiClipsInOrder(Tail(tracks), first_idx + 1)

PlaylistEvents(events) == SelectSeq(events, LAMBDA ev : ev.tag = EV_PLAYLIST_ITEMS)
PatternStarts(events) == SelectSeq(events, IsPatternStart)

\* the k-th 20-byte tuple of a playlist event, as five numbers
PlaylistTuple(event, k) ==
    LET bytes == SubSeq(AfterVarint(event.payload), 20 * (k - 1) + 1, 20 * k)
    IN  [f \in 1..5 |-> LittleEndianValue(SubSeq(bytes, 4 * (f - 1) + 1, 4 * f))]

\* C17: the playlist event lists one 20-byte tuple per emitted pattern, in
\* emission order: the k-th tuple holds the position of the clip in ticks, a
\* length of at least 1 tick (1 for a clip of duration 0), the pattern id k of
\* the k-th pattern-start event, the index of the track that owns the clip
\* and flags 0; the payload is 20 bytes per pattern, and a stream without
\* patterns has no playlist event.
C17_PlaylistTuples ==
    pc = "done" =>
        LET owners == MidiClipsInOrder(transproj.tracks, 0)
            starts == PatternStarts(data)
            lists == PlaylistEvents(data)
            n == Len(starts)
        IN  /\ n = Len(owners)
            /\ Len(lists) = (IF n >= 1 THEN 1 ELSE 0)
            /\ n >= 1 =>
                  /\ Len(AfterVarint(lists[1].payload)) = 20 * n
                  /\ VarintValue(SubSeq(lists[1].payload, 1, VarintLen(lists[1].payload)))
                        = 20 * n
                  /\ \A k \in 1..n :
                        LET tuple == PlaylistTuple(lists[1], k)
                            clip == owners[k].clip
                            ticks == RatMulInt(clip.duration, self_ppq)
                        IN  /\ WithinOne(tuple[1], RatMulInt(clip.start, self_ppq))
                            /\ tuple[2] >= 1
                            /\ clip.duration = RatZero => tuple[2] = 1
                            /\ ~RatGt(RatOne, ticks) => WithinOne(tuple[2], ticks)
                            /\ tuple[3] = k
                            /\ tuple[3] = LittleEndianValue(starts[k].payload)
                            /\ tuple[4] = owners[k].track_idx
                            /\ tuple[5] = 0

\* two tracks: the first with an audio clip only, the second with a clip of
\* duration 0 at beat 4 followed by a clip of 4 beats
C17_Witness ==
    /\ pc = "done"
    /\ Len(transproj.tracks) = 2
    /\ Len(transproj.tracks[1].clips) = 1
    /\ ~transproj.tracks[1].clips[1].is_midi
    /\ Len(transproj.tracks[2].clips) = 2
    /\ transproj.tracks[2].clips[1].duration = RatZero
    /\ transproj.tracks[2].clips[2].duration = Rat(4, 1)
    /\ PlaylistTuple(PlaylistEvents(data)[1], 1) = <<4 * 96, 1, 1, 1, 0>>
    /\ PlaylistTuple(PlaylistEvents(data)[1], 2) = <<0, 4 * 96, 2, 1, 0>>

-----------------------------------------------------------------------------
(* The header and the size of the data block in the bytes returned by       *)
(* _build_flp_binary                                                        *)

\* the channel-count field of the header: bytes 10..11 of the file
HeaderChannels(bytes) == LittleEndianValue(SubSeq(bytes, 11, 12))

\* the length field of the data block: bytes 18..21 of the file
BlockLength(bytes) == LittleEndianValue(SubSeq(bytes, 19, 22))

\* C18: in every output the channel count of the header is the number of
\* tracks of the project and the number of channel-start events, and the
\* length field of the data block is the number of bytes of the event stream
\* after it: the total length minus the 14 bytes of the header, the 4 bytes
\* of the data magic and the 4 bytes of the field itself.
C18_HeaderCounts ==
    pc = "done" =>
        /\ HeaderChannels(output) = Len(transproj.tracks)
        /\ HeaderChannels(output) = Cardinality(TagPositions(data, EV_NEW_CHAN))
        /\ SubSeq(output, 1, 4) = <<70, 76, 104, 100>>
        /\ SubSeq(output, 15, 18) = <<70, 76, 100, 116>>
        /\ BlockLength(output) = Len(output) - 14 - 4 - 4
        /\ SubSeq(output, 23, Len(output)) = EventBytes(data)

\* an output for two tracks with a pattern and a playlist event
C18_Witness ==
    /\ pc = "done"
    /\ Len(transproj.tracks) = 2
    /\ HeaderChannels(output) = 2
    /\ pattern_count >= 1
    /\ BlockLength(output) > 60

-----------------------------------------------------------------------------
(* FLStudioWriter._write_varint, one iteration of its loop at a time: input *)
(* holds the argument n and what is left of `value`, output the bytes       *)
(* appended so far                                                          *)

\* every n up to MaxVarint, and numbers around the powers of 128 and 256
MaxVarint == 300
VarintInputs ==
    (0..MaxVarint)
    \cup { 16383, 16384, 16385, 65535, 65536, 2097151, 2097152, 268435455,
           268435456, 2147483647 }

InitVarint ==
    /\ pc = "varint"
    /\ \E n \in VarintInputs : input = [n |-> n, value |-> n]
    /\ output = <<>>
    /\ error = ""
    /\ Idle

\* lines 425-431: byte = value & 0x7F; value >>= 7; the high bit is set if
\* value is not 0; the byte is appended; the loop ends when value is 0
VarintStep ==
    /\ pc = "varint"
    /\ \E byte \in {input.value % 128}, value \in {input.value \div 128} :
          /\ output' = Append(output, IF value # 0 THEN byte + 128 ELSE byte)
          /\ input' = [input EXCEPT !.value = value]
          /\ pc' = IF value = 0 THEN "varint_done" ELSE "varint"
    /\ UNCHANGED <<transproj, data, header, idx, track_idx, clip_idx, pattern_count,
                   playlist_items, self_ppq, error, conv, parser>>

NextVarint == VarintStep

\* the loop runs on its own: an iteration that can be taken is taken
SpecVarint == InitVarint /\ [][NextVarint]_vars /\ WF_vars(VarintStep)

VarintDone ==
    pc = "varint_done" =>
        /\ output # <<>>
        /\ \A i \in 1..Len(output) :
              /\ output[i] \in 0..255
              /\ (output[i] >= 128) = (i < Len(output))
        /\ VarintValue(output) = input.n
        /\ input.n = 0 => output = <<0>>
        /\ output = _write_varint(input.n)

\* C19: for n >= 0 the loop of _write_varint ends, and the bytes it has
\* appended are the little-endian base-128 digits of n: every byte but the
\* last has its high bit set, the last has it clear, the sum of
\* (byte mod 128) * 128^i is n, and 0 is written as the single byte 0.
C19_VarintEncoding == []VarintDone /\ <>(pc = "varint_done")

\* 300 has been written as the two bytes 0xAC 0x02
C19_Witness ==
    /\ pc = "varint_done"
    /\ input.n = 300
    /\ output = <<172, 2>>

-----------------------------------------------------------------------------
(* The order of the events in the stream of a finished build                *)

\* the positions of the channel-start events, in increasing order
RECURSIVE Ascending(_)
Ascending(S) ==
    IF S = {} THEN <<>>
    ELSE LET least == CHOOSE i \in S : \A j \in S : i <= j
         IN  <<least>> \o Ascending(S \ {least})

\* version, project id and tempo open the stream, followed by the title iff
\* the project has a name; then come the channel starts, numbered in track
\* order, then the pattern starts, and a playlist event can only be the last
\* event of the stream
StreamOrdered ==
    LET globals == IF transproj.name # <<>> THEN 4 ELSE 3
        channels == TagPositions(data, EV_NEW_CHAN)
        patterns == TagPositions(data, EV_NEW_PAT)
        lists == TagPositions(data, EV_PLAYLIST_ITEMS)
        starts == Ascending(channels)
    IN  /\ Len(data) >= globals
        /\ data[1].tag = EV_VERSION
        /\ data[2].tag = EV_PROJECT_ID
        /\ data[3].tag = EV_TEMPO
        /\ TagPositions(data, EV_VERSION) = {1}
        /\ TagPositions(data, EV_PROJECT_ID) = {2}
        /\ TagPositions(data, EV_TEMPO) = {3}
        /\ TagPositions(data, EV_TITLE) = (IF transproj.name # <<>> THEN {4} ELSE {})
        /\ Len(starts) = Len(transproj.tracks)
        /\ \A k \in 1..Len(starts) : data[starts[k]].payload = PackH(k - 1)
        /\ channels # {} => starts[1] = globals + 1
        /\ channels = {} /\ patterns # {} => (globals + 1) \in patterns
        /\ \A c \in channels : \A p \in patterns : c < p
        /\ \A e \in channels \cup patterns : \A l \in lists : e < l
        /\ lists \subseteq {Len(data)}

\* C20 as amended: in every output the stream is ordered as described, and
\* the playlist event closes it exactly when at least one pattern was written
C20_StreamOrder ==
    pc = "done" =>
        /\ StreamOrdered
        /\ (TagPositions(data, EV_PLAYLIST_ITEMS) # {}) = (pattern_count >= 1)

\* C20: in every output the event stream is: version, project id, tempo,
\* title (iff the project name is not empty), the channel records in track
\* order, the pattern records, then the playlist event; no channel start
\* comes after a pattern start and no pattern start after the playlist event.
C20_PlaylistCloses ==
    pc = "done" =>
        /\ StreamOrdered
        /\ TagPositions(data, EV_PLAYLIST_ITEMS) = {Len(data)}

\* a named project of two tracks with a pattern in the first one
C20_Witness ==
    /\ pc = "done"
    /\ transproj.name # <<>>
    /\ Len(transproj.tracks) = 2
    /\ data[4].tag = EV_TITLE
    /\ data[5].tag = EV_NEW_CHAN
    /\ TagPositions(data, EV_NEW_PAT) # {}
    /\ \E c \in TagPositions(data, EV_NEW_CHAN) : data[c].payload = PackH(1)
    /\ data[Len(data)].tag = EV_PLAYLIST_ITEMS

-----------------------------------------------------------------------------
(* convert_file on a source that does not exist                             *)

SourceMissing == ~PathExists(files, input.input_file)

\* a call that found no source has returned False without a project, a
\* buffer or a destination path of its own
ReturnedUntouched ==
    (pc = "returned" /\ SourceMissing) =>
        /\ result = Some(FALSE)
        /\ transproj = TransProj(<<>>, Rat(120, 1), 96, <<>>)
        /\ data = <<>>
        /\ output = <<>>
        /\ filepath = <<>>

\* the step taken from the start of a call whose source does not exist
MissingSourceStep ==
    (pc = "convert" /\ SourceMissing) =>
        /\ pc' = "returned"
        /\ result' = Some(FALSE)
        /\ files' = files
        /\ UNCHANGED <<transproj, writerState>>

\* C21: when the source path does not exist, convert_file answers False in
\* one step: the parser and the writer are not run, and no file, the
\* destination included, is created or changed.
C21_MissingSource == []ReturnedUntouched /\ [][MissingSourceStep]_vars

\* a call without a source has returned and the file that was at the
\* destination before the call is still there
C21_Witness ==
    /\ pc = "returned"
    /\ SourceMissing
    /\ result = Some(FALSE)
    /\ files = {<<Destination(input), <<>>>>}

-----------------------------------------------------------------------------
(* FLStudioWriter.write without the PyFLP backend: when the destination is  *)
(* written                                                                  *)

\* the destination is created or changed only by the step that follows the
\* assembly of the whole buffer, and that step writes the buffer, or fails
\* after open() has created the file
WriteStep ==
    (~use_pyflp /\ files' # files) =>
        /\ pc = "done"
        /\ output = FlpBytes(header, data)
        /\ Len(output) >= 22
        /\ \/ files' = FileWrite(files, filepath, output) /\ pc' = "verify"
           \/ files' = FileWrite(files, filepath, <<>>) /\ pc' = "raised"

\* what is left of a call after the write step, or after an exception,
\* writes nothing: the call can only return, and an exception returns False
AfterWriteStep ==
    (~use_pyflp /\ pc \in {"done", "verify", "raised", "returned"}) =>
        /\ pc' \in {"verify", "raised", "returned"}
        /\ pc # "done" => files' = files
        /\ pc = "raised" => result' = Some(FALSE)

\* a call that has not assembled its buffer has not touched the destination:
\* it is absent, or the file that was there before the call
DestinationUntouched ==
    (~use_pyflp /\ pc \in {"convert", "parse", "build", "channels", "patterns"}) =>
        \A f \in files : f[1] = Destination(input) => f[2] \in {<<>>, S_xml}

\* C22: without the PyFLP backend the destination is opened only after the
\* whole buffer has been assembled and is written once per call; when the
\* parser or the assembly of the buffer raises, no file is created or
\* changed and convert_file returns False.
C22_WriteOnce ==
    /\ []DestinationUntouched
    /\ [][WriteStep]_vars
    /\ [][AfterWriteStep]_vars
    /\ [][(~use_pyflp /\ pc' = "raised" /\ pc # "done") => files' = files]_vars

\* the assembly of the buffer has raised, convert_file has returned False and
\* there is no file at the destination
C22_Witness ==
    /\ pc = "returned"
    /\ ~use_pyflp
    /\ error = "TypeError"
    /\ data # <<>>
    /\ result = Some(FALSE)
    /\ ~PathExists(files, filepath)
    /\ output = <<>>

-----------------------------------------------------------------------------
(* End to end on a track with an instrument rack: AbletonParser.parse, then *)
(* _build_flp_binary with its normalization of the track                    *)

\* at most MaxNested devices inside the rack
MaxNested == 2

\* the devices nested in the rack: a Simpler, a Reverb, a Sampler named 'Analog'
NestedChoices ==
    { Element("OriginalSimpler", {}, <<>>),
      Element("Reverb", {}, <<>>),
      Element("MultiSampler", {}, <<Leaf("UserName", S_Analog)>>) }

RackChain(devices) ==
    Element("Chain", {}, <<
        Element("DeviceChain", {}, <<Element("Devices", {}, devices)>>)>>)

\* an instrument-group device with its nested devices in one chain, or in one
\* chain each
InstrumentRack(nested, split) ==
    Element("InstrumentGroupDevice", {}, <<
        Element("Chains", {},
                IF split THEN [i \in 1..Len(nested) |-> RackChain(<<nested[i]>>)]
                ELSE <<RackChain(nested)>>)>>)

\* the track 'Lead' with the rack in its device list, after a Reverb or alone,
\* with or without a clip on the timeline
RackTrack(rack, effect, clip) ==
    Element("MidiTrack", {<<"Id", S_0>>},
        <<Element("Name", {}, <<Leaf("EffectiveName", S_Lead)>>),
          Element("DeviceChain", {},
              <<Element("MainSequencer", {}, <<
                    Element("ClipTimeable", {}, <<
                        Element("ArrangerAutomation", {}, <<
                            Element("Events", {},
                                    IF clip
                                    THEN <<ClipElement(SetClip(<<Leaf("Name", S_A)>>), 1)>>
                                    ELSE <<>>)>>)>>)>>),
                Element("Devices", {},
                        (IF effect THEN <<Element("Reverb", {}, <<>>)>> ELSE <<>>)
                        \o <<rack>>)>>)>>)

InitRack ==
    /\ pc = "parse"
    /\ \E nested \in SeqsUpTo(NestedChoices, MaxNested), split \in BOOLEAN,
          effect \in BOOLEAN, clip \in BOOLEAN :
          /\ nested # <<>>
          /\ input = [path |-> S_song_als,
                      root |-> LiveSet(RackTrack(InstrumentRack(nested, split),
                                                 effect, clip)),
                      nested |-> nested]
    /\ output = <<>>
    /\ error = ""
    /\ Idle

SpecRack == InitRack /\ [][NextEndToEnd]_vars

\* the Plugin that _parse_instrument_rack builds from a nested device
NestedPlugin(device) == Plugin(_get_device_name(device), S_Ableton, TRUE, None, <<>>)

\* C23 (as stated): for a track without explicit instrument whose device list
\* holds an instrument-group device with at least one nested device, once the
\* writer has normalized the track its instrument is the first nested plugin
\* of the rack, the other nested plugins end the track's effect list in their
\* order, and the plugin state of the channel is the one encoded from that
\* first plugin.
C23_RackBecomesInstrument ==
    pc \in {"patterns", "done"} =>
        LET track == transproj.tracks[1]
            first == NestedPlugin(input.nested[1])
            rest == [i \in 1..Len(input.nested) - 1 |-> NestedPlugin(input.nested[i + 1])]
            encoded == ChannelPluginState([track EXCEPT !.instrument = Some(first)])
        IN  /\ track.instrument = Some(first)
            /\ Len(track.effects) >= Len(rest)
            /\ SubSeq(track.effects, Len(track.effects) - Len(rest) + 1,
                      Len(track.effects)) = rest
            /\ encoded.err = "" => PluginEvents = encoded.val

-----------------------------------------------------------------------------
(* AbletonParser.parse on sets whose optional elements are present with a   *)
(* number, absent, or present with a value that is no number                *)

Presence == {"ok", "absent", "bad"}

\* an element whose Value is `value`, or 'x' when it is to be unparsable
Valued(tag, how, value) == Leaf(tag, IF how = "ok" THEN value ELSE S_x)

\* the note of the clip: with its three attributes, without attributes, or
\* with a Time that is no number
DefaultsNote(time) ==
    Element("MidiNoteEvent",
            IF time = "absent" THEN {}
            ELSE {<<"Time", IF time = "ok" THEN S_2 ELSE S_x>>,
                  <<"Duration", S_0_5>>, <<"Velocity", S_127>>},
            <<>>)

\* the clip 'A' of the timeline: from beat 2 to beat 4, key 64
DefaultsClip(start, key, time) ==
    Element("MidiClip", {<<"Id", S_1>>},
        <<Leaf("Name", S_A)>>
        \o (IF start = "absent" THEN <<>>
            ELSE <<Valued("CurrentStart", start, S_2), Leaf("CurrentEnd", S_4)>>)
        \o <<Element("Notes", {}, <<Element("KeyTracks", {}, <<
                Element("KeyTrack", {},
                    <<Element("Notes", {}, <<DefaultsNote(time)>>)>>
                    \o (IF key = "absent" THEN <<>>
                        ELSE <<Valued("MidiKey", key, S_64)>>))>>)>>)>>)

\* the track 'Lead': volume and pan 0.5 in its mixer, and the clip
DefaultsTrack(mixer, clip_elem) ==
    Element("MidiTrack", {<<"Id", S_0>>},
        <<Element("Name", {}, <<Leaf("EffectiveName", S_Lead)>>),
          Element("DeviceChain", {},
              (IF mixer = "absent" THEN <<>>
               ELSE <<Element("Mixer", {}, <<
                          Element("Volume", {}, <<Valued("Manual", mixer, S_0_5)>>),
                          Element("Pan", {}, <<Valued("Manual", mixer, S_0_5)>>)>>)>>)
              \o <<Element("MainSequencer", {}, <<
                      Element("ClipTimeable", {}, <<
                          Element("ArrangerAutomation", {}, <<
                              Element("Events", {}, <<clip_elem>>)>>)>>)>>)>>)>>)

\* the document: the root is 'Ableton' or something else, the tempo is 128
DefaultsSet(root_tag, tempo, track_elem) ==
    Element(root_tag, {},
        <<Element("LiveSet", {},
            <<Element("Tracks", {}, <<track_elem>>)>>
            \o (IF tempo = "absent" THEN <<>>
                ELSE <<Element("MasterTrack", {}, <<
                           Element("DeviceChain", {}, <<
                               Element("Mixer", {}, <<
                                   Element("Tempo", {}, <<
                                       Valued("Manual", tempo, S_128)>>)>>)>>)>>)>>))>>)

\* `input` keeps how each optional element was given next to the document
InitDefaults ==
    /\ pc = "parse"
    /\ \E root_tag \in {"Ableton", "Project"}, tempo \in Presence, mixer \in Presence,
          start \in Presence, key \in Presence, time \in Presence :
          input = [path |-> S_song_als,
                   root |-> DefaultsSet(root_tag, tempo,
                                DefaultsTrack(mixer, DefaultsClip(start, key, time))),
                   tempo |-> tempo, mixer |-> mixer, start |-> start, key |-> key,
                   time |-> time]
    /\ output = <<>>
    /\ error = ""
    /\ Idle

NextDefaults == ParseFile

SpecDefaults == InitDefaults /\ [][NextDefaults]_vars

\* C24 (as stated): parse fails only for a missing or unrecognized root; with
\* a valid root an optional element that is absent or holds an unparsable
\* value gives its default (tempo 120, volume 1.0, pan 0.0, clip from 0 to
\* 4, note at 0 for 1 beat with velocity 100) and parse returns a project.
C24_DefaultsNeverFail ==
    pc # "parse" =>
        IF input.root.tag # "Ableton"
        THEN pc = "raised" /\ error = "ValueError"
        ELSE /\ pc = "build"
             /\ transproj.tempo = (IF input.tempo = "ok" THEN Rat(128, 1) ELSE Rat(120, 1))
             /\ Len(transproj.tracks) = 1
             /\ LET track == transproj.tracks[1]
                IN  /\ track.volume = (IF input.mixer = "ok" THEN RatHalf ELSE RatOne)
                    /\ track.pan = (IF input.mixer = "ok" THEN RatHalf ELSE RatZero)
                    /\ Len(track.clips) = 1
                    /\ track.clips[1].start
                          = (IF input.start = "ok" THEN Rat(2, 1) ELSE RatZero)
                    /\ RatAdd(track.clips[1].start, track.clips[1].duration) = Rat(4, 1)
                    /\ input.key = "absent" => track.clips[1].notes = <<>>
                    /\ input.key # "absent" =>
                          /\ Len(track.clips[1].notes) = 1
                          /\ track.clips[1].notes[1].key
                                = (IF input.key = "ok" THEN 64 ELSE 60)
                          /\ track.clips[1].notes[1].position
                                = (IF input.time = "ok" THEN Rat(2, 1) ELSE RatZero)

\* what the code does: an unparsable clip start, key or note time raises
\* ValueError, and nothing else does
DefaultsAsCoded ==
    pc # "parse" =>
        (pc = "raised") = (input.root.tag # "Ableton" \/ input.start = "bad"
                           \/ input.key = "bad" \/ (input.time = "bad" /\ input.key = "ok"))

-----------------------------------------------------------------------------
(* AbletonParser._parse_devices on tracks whose device list is inside the   *)
(* device chain, or directly below the track                                *)

\* at most MaxDevices devices in the list
MaxDevices == 2

\* a Reverb, a Simpler, an empty drum group, an empty effect rack, and an
\* instrument rack holding a Simpler
DeviceChoices ==
    { Element("Reverb", {}, <<>>),
      Element("OriginalSimpler", {}, <<>>),
      Element("DrumGroupDevice", {}, <<>>),
      Element("AudioEffectGroupDevice", {}, <<>>),
      InstrumentRack(<<Element("OriginalSimpler", {}, <<>>)>>, FALSE) }

DeviceTrack(devices, in_chain) ==
    Element("MidiTrack", {<<"Id", S_0>>},
        <<Element("Name", {}, <<Leaf("EffectiveName", S_Lead)>>)>>
        \o (IF in_chain
            THEN <<Element("DeviceChain", {}, <<Element("Devices", {}, devices)>>)>>
            ELSE <<Element("Devices", {}, devices)>>))

\* `input` keeps the device elements next to the track element
InitDevices ==
    /\ pc = "devices"
    /\ \E devices \in SeqsUpTo(DeviceChoices, MaxDevices), in_chain \in BOOLEAN :
          input = [track_elem |-> DeviceTrack(devices, in_chain), devices |-> devices,
                   in_chain |-> in_chain]
    /\ ptrack = None
    /\ clip_source = <<>>
    /\ transproj = TransProj(<<>>, Rat(120, 1), 96, <<>>)
    /\ self_ppq = DEFAULT_PPQ
    /\ data = <<>>
    /\ header = [channels |-> 0, ppq |-> 0]
    /\ idx = 0
    /\ track_idx = 0
    /\ clip_idx = 0
    /\ pattern_count = 0
    /\ playlist_items = <<>>
    /\ error = ""
    /\ output = <<>>
    /\ files = {}
    /\ filepath = <<>>
    /\ use_pyflp = FALSE
    /\ result = None

\* _parse_devices(track_elem, track) on the Track just created for the element
ParseDevices ==
    /\ pc = "devices"
    /\ \E track \in {_parse_devices(input.track_elem, NewTrack(input.track_elem))} :
          ptrack' = Some(track)
    /\ pc' = "devices_parsed"
    /\ UNCHANGED <<transproj, data, header, idx, track_idx, clip_idx, pattern_count,
                   playlist_items, self_ppq, error, input, output, conv, clip_source>>

NextDevices == ParseDevices

SpecDevices == InitDevices /\ [][NextDevices]_vars

IsGroupDevice(device) ==
    device.tag \in {"DrumGroupDevice", "InstrumentGroupDevice", "AudioEffectGroupDevice"}
IsInstrumentDevice(device) ==
    ~IsGroupDevice(device) /\ device.tag \in {"OriginalSimpler", "MultiSampler"}

\* C25 (as stated): every device element of the track is classified once: the
\* racks are the group devices of the list, the effects its effect devices,
\* an instrument is set exactly when the list holds an instrument device, and
\* no device is entered twice, also when './/DeviceChain/Devices' and
\* './/Devices' are the same element.
C25_ClassifiedOnce ==
    pc = "devices_parsed" =>
        LET track == ptrack[1]
            groups == SelectSeq(input.devices, IsGroupDevice)
            instruments == SelectSeq(input.devices, IsInstrumentDevice)
            others == SelectSeq(input.devices,
                                LAMBDA d : ~IsGroupDevice(d) /\ ~IsInstrumentDevice(d))
        IN  /\ Len(track.racks) = Len(groups)
            /\ Len(track.effects) = Len(others)
            /\ (track.instrument # None) = (instruments # <<>>)
            /\ Len(track.racks) + Len(track.effects) + Len(instruments)
                  = Len(input.devices)

\* what the code does when the list is inside the device chain: every device
\* of the list is entered twice
DevicesEnteredTwice ==
    (pc = "devices_parsed" /\ input.in_chain) =>
        /\ Len(ptrack[1].racks) = 2 * Len(SelectSeq(input.devices, IsGroupDevice))
        /\ Len(ptrack[1].effects)
              = 2 * Len(SelectSeq(input.devices,
                                  LAMBDA d : ~IsGroupDevice(d) /\ ~IsInstrumentDevice(d)))

-----------------------------------------------------------------------------
(* AbletonParser.parse and its session-view flag, on sets whose track keeps *)
(* its clip slots in a ClipSlotList, in a ClipSlots element, or in both     *)

\* AbletonParser._detect_session_view: the test of one slot
SlotPopulated(slot) ==
    Let(find(slot, FALSE, <<"Value">>), LAMBDA value_elem :
        /\ value_elem # None
        /\ \/ find(value_elem[1], FALSE, <<"MidiClip">>) # None
           \/ find(value_elem[1], FALSE, <<"AudioClip">>) # None)

\* AbletonParser._detect_session_view: the body of the loop over the tracks
TrackHasSlotClip(track_elem) ==
    Let(find(track_elem, TRUE, <<"ClipSlots">>), LAMBDA clip_slots :
        /\ clip_slots # None
        /\ ElementTruth(clip_slots[1])
        /\ \E slot \in Range(findall(clip_slots[1], FALSE, <<"ClipSlot">>)) :
              SlotPopulated(slot))

\* AbletonParser._detect_session_view
_detect_session_view(liveset) ==
    Let(find(liveset, TRUE, <<"Tracks">>), LAMBDA tracks_elem :
        /\ tracks_elem # None
        /\ ElementTruth(tracks_elem[1])
        /\ \E track_elem \in Range(tracks_elem[1].children) :
              TrackHasSlotClip(track_elem))

\* what a slot of the track holds: nothing, the MIDI clip 'A', the audio clip 'Foo'
SessionSlotChoices ==
    { Choice("", <<>>),
      Choice("MidiClip", <<Leaf("Name", S_A)>>),
      Choice("AudioClip", <<Leaf("Name", S_Foo)>>) }

\* the elements that hold the slots of the track
SlotLists(slots, tags) ==
    [t \in 1..Len(tags) |->
        Element(tags[t], {}, [i \in 1..Len(slots) |-> ClipSlot(slots[i], i)])]

\* the track 'Lead' with its slots and, on the timeline, the clip 'Lead' or
\* nothing
SessionTrack(slots, tags, arranged) ==
    Element("MidiTrack", {<<"Id", S_0>>},
        <<Element("Name", {}, <<Leaf("EffectiveName", S_Lead)>>),
          Element("DeviceChain", {}, <<
              Element("MainSequencer", {},
                  SlotLists(slots, tags)
                  \o <<Element("ClipTimeable", {}, <<
                          Element("ArrangerAutomation", {}, <<
                              Element("Events", {},
                                  IF arranged
                                  THEN <<ClipElement(Choice("MidiClip",
                                                            <<Leaf("Name", S_Lead)>>), 9)>>
                                  ELSE <<>>)>>)>>)>>)>>)>>)

\* `input` keeps the slots and the tags of their lists next to the document
InitSession ==
    /\ pc = "parse"
    /\ \E slots \in SeqsUpTo(SessionSlotChoices, MaxSlots),
          tags \in {<<"ClipSlotList">>, <<"ClipSlots">>, <<"ClipSlotList", "ClipSlots">>},
          arranged \in BOOLEAN :
          input = [path |-> S_song_als,
                   root |-> LiveSet(SessionTrack(slots, tags, arranged)),
                   slots |-> slots,
                   tags |-> tags]
    /\ output = <<>>
    /\ error = ""
    /\ Idle

\* AbletonParser.parse(filepath): the TransProj returned; `output` takes the
\* fields of it that no writer reads
ParseSession ==
    /\ pc = "parse"
    /\ \E r \in {parse(input.path, input.root)} :
          IF r.err = ""
          THEN /\ transproj' = r.val
               /\ \E liveset \in {IF input.root.tag = "Ableton" THEN input.root
                                   ELSE find(input.root, TRUE, <<"Ableton">>)[1]} :
                     output' = [is_session_view |-> _detect_session_view(liveset)]
               /\ pc' = "parsed"
               /\ UNCHANGED error
          ELSE /\ pc' = "raised"
               /\ error' = r.err
               /\ UNCHANGED <<transproj, output>>
    /\ UNCHANGED <<data, header, idx, track_idx, clip_idx, pattern_count,
                   playlist_items, self_ppq, input, conv, parser>>

NextSession == ParseSession

SpecSession == InitSession /\ [][NextSession]_vars

\* some clip of the parsed project has a scene index
HasSceneClip ==
    \E t \in 1..Len(transproj.tracks) :
        \E c \in 1..Len(transproj.tracks[t].clips) :
            transproj.tracks[t].clips[c].scene_index # None

\* C26 (as stated): is_session_view is true whenever a clip of the parsed
\* project has a scene index, and false when no clip slot of the set is
\* populated.
C26_FlagAgreesWithClips ==
    pc = "parsed" =>
        /\ HasSceneClip => output.is_session_view
        /\ (\A i \in 1..Len(input.slots) : input.slots[i].tag = "")
              => ~output.is_session_view


\* the flag as the code computes it: true exactly when a ClipSlots element of
\* the track has a populated slot
SessionViewAsCoded ==
    pc = "parsed" =>
        (output.is_session_view
            <=> /\ \E t \in 1..Len(input.tags) : input.tags[t] = "ClipSlots"
                /\ \E i \in 1..Len(input.slots) : input.slots[i].tag # "")

\* the parsed clips have scene indices exactly when a ClipSlotList element of
\* the track has a populated slot
SceneClipsAsCoded ==
    pc = "parsed" =>
        (HasSceneClip
            <=> /\ \E t \in 1..Len(input.tags) : input.tags[t] = "ClipSlotList"
                /\ \E i \in 1..Len(input.slots) : input.slots[i].tag # "")

-----------------------------------------------------------------------------
(* AbletonParser._parse_drum_rack on drum groups of 0..MaxPads branches     *)

\* which branches of a drum group are empty
EmptyPatterns == {"none", "odd", "even", "first", "last", "all"}

IsEmptyBranch(pattern, i, n) ==
    CASE pattern = "none" -> FALSE
      [] pattern = "odd" -> i % 2 = 1
      [] pattern = "even" -> i % 2 = 0
      [] pattern = "first" -> i = 0
      [] pattern = "last" -> i = n - 1
      [] pattern = "all" -> TRUE

\* branch i of a drum group; the empty ones lack the DrumBranch, its device
\* chain, or the devices of the chain, by turns
Branch(empty, i) ==
    Element("Branch", {},
        IF empty /\ i % 3 = 0 THEN <<>>
        ELSE <<Element("DrumBranch", {},
                  IF empty /\ i % 3 = 1 THEN <<Leaf("Name", S_Kick)>>
                  ELSE <<Leaf("Name", S_Kick),
                         Element("DeviceChain", {}, <<
                             Element("Devices", {},
                                 IF empty THEN <<>>
                                 ELSE <<Element("OriginalSimpler", {}, <<>>)>>)>>)>>)>>)

DrumGroup(n, pattern) ==
    Element("DrumGroupDevice", {},
        <<Element("Branches", {},
              [k \in 1..n |-> Branch(IsEmptyBranch(pattern, k - 1, n), k - 1)])>>)

\* `input` keeps the number of branches and their pattern next to the device
InitDrumRack ==
    /\ pc = "drum"
    /\ \E n \in 0..MaxPads, pattern \in EmptyPatterns :
          input = [device_elem |-> DrumGroup(n, pattern), n |-> n, pattern |-> pattern]
    /\ output = <<>>
    /\ error = ""
    /\ Idle

\* AbletonParser._parse_drum_rack(device_elem): `output` takes the Rack
ParseDrumRack ==
    /\ pc = "drum"
    /\ output' = _parse_drum_rack(input.device_elem)
    /\ pc' = "drum_parsed"
    /\ UNCHANGED <<transproj, data, header, idx, track_idx, clip_idx, pattern_count,
                   playlist_items, self_ppq, error, input, conv, parser>>

NextDrumRack == ParseDrumRack

SpecDrumRack == InitDrumRack /\ [][NextDrumRack]_vars

\* C27 (as stated): every pad built from a drum group has an index within
\* 0..15 and the MIDI key 36 + index.
C27_PadIndexRange ==
    pc = "drum_parsed" =>
        \A p \in 1..Len(output.drum_pads) :
            /\ output.drum_pads[p].index \in 0..15
            /\ output.drum_pads[p].midi_note = 36 + output.drum_pads[p].index

\* the pads as the code builds them: one for every branch that is not empty,
\* in the order of the branches, with the position of the branch as index and
\* the key 36 + index
PadsAsCoded ==
    pc = "drum_parsed" =>
        /\ [p \in 1..Len(output.drum_pads) |-> output.drum_pads[p].index]
              = SelectSeq([k \in 1..input.n |-> k - 1],
                          LAMBDA i : ~IsEmptyBranch(input.pattern, i, input.n))
        /\ \A p \in 1..Len(output.drum_pads) :
              output.drum_pads[p].midi_note = 36 + output.drum_pads[p].index

-----------------------------------------------------------------------------
(* _build_flp_binary over projects whose MIDI clips hold 0..MaxPatternNotes *)
(* notes and whose audio clips hold notes as well                           *)

\* MIDI clips of 0..MaxPatternNotes notes with the keys 60, 61, ...; an audio
\* clip with a note of key 99, which no MIDI clip has
ConservationClips ==
    { Clip(S_A, RatZero, Rat(4, 1), [i \in 1..n |-> NoteAt(i)], <<>>, TRUE, None) :
        n \in 0..MaxPatternNotes }
    \cup { Clip(S_Foo, RatZero, Rat(4, 1), <<Note(RatZero, RatHalf, 99, RatOne)>>,
                S_KickWav, FALSE, None) }

\* at most two clips in a track
ConservationTracks ==
    { Track(S_Lead, RatOne, RatZero, clips, None, <<>>, <<>>) :
        clips \in SeqsUpTo(ConservationClips, 2) }

InitConservation ==
    /\ pc = "build"
    /\ \E tracks \in SeqsUpTo(ConservationTracks, MaxTracks) :
          /\ tracks # <<>>
          /\ transproj = TransProj(S_Lead, Rat(120, 1), 96, tracks)
    /\ self_ppq = DEFAULT_PPQ
    /\ data = <<>>
    /\ header = [channels |-> 0, ppq |-> 0]
    /\ idx = 0
    /\ track_idx = 0
    /\ clip_idx = 0
    /\ pattern_count = 0
    /\ playlist_items = <<>>
    /\ error = ""
    /\ input = <<>>
    /\ output = <<>>
    /\ files = {}
    /\ filepath = <<>>
    /\ use_pyflp = FALSE
    /\ result = None
    /\ ptrack = None
    /\ clip_source = <<>>

SpecConservation == InitConservation /\ [][NextBuild]_vars

\* the events from the first pattern start on: the tag of the note blocks is
\* the tag of the channel names, which come before
PatternRegion(events) ==
    IF TagPositions(events, EV_NEW_PAT) = {} THEN <<>>
    ELSE SubSeq(events,
                CHOOSE i \in TagPositions(events, EV_NEW_PAT) :
                    \A j \in TagPositions(events, EV_NEW_PAT) : i <= j,
                Len(events))

\* the keys of the 24-byte records of the note blocks, in stream order
WrittenKeys(events) ==
    LET blocks == NoteBlocks(PatternRegion(events))
    IN  Flatten([b \in 1..Len(blocks) |->
                    [k \in 1..(Len(AfterVarint(blocks[b].payload)) \div 24) |->
                        NoteRecord(blocks[b], k)[13]]])

\* the keys of the notes of the MIDI clips, in the order of the pattern loop
MidiKeys(tracks) ==
    LET owners == MidiClipsInOrder(tracks, 0)
    IN  Flatten([m \in 1..Len(owners) |->
                    [k \in 1..Len(owners[m].clip.notes) |-> owners[m].clip.notes[k].key]])

\* C28: a finished build has one pattern record per MIDI clip; its note blocks
\* are whole 24-byte records, and these are the notes of the MIDI clips, each
\* once and in the order of the clips: their number is the sum of the note
\* counts of the MIDI clips and no note of an audio clip is among them.
C28_NoteConservation ==
    pc = "done" =>
        LET blocks == NoteBlocks(PatternRegion(data))
        IN  /\ Len(PatternStarts(data)) = MidiClipCount(transproj.tracks)
            /\ Len(PatternStarts(data)) = Len(MidiClipsInOrder(transproj.tracks, 0))
            /\ \A b \in 1..Len(blocks) :
                  /\ Len(AfterVarint(blocks[b].payload)) % 24 = 0
                  /\ VarintValue(SubSeq(blocks[b].payload, 1, VarintLen(blocks[b].payload)))
                        = Len(AfterVarint(blocks[b].payload))
            /\ WrittenKeys(data) = MidiKeys(transproj.tracks)
            /\ \A k \in 1..Len(WrittenKeys(data)) : WrittenKeys(data)[k] # 99

\* a finished build of a project with an audio clip that holds a note between
\* MIDI clips of two notes and of one note: three records are written
C28_Witness ==
    /\ pc = "done"
    /\ Len(transproj.tracks) = 2
    /\ Len(transproj.tracks[1].clips) = 2
    /\ transproj.tracks[1].clips[1].is_midi
    /\ Len(transproj.tracks[1].clips[1].notes) = 2
    /\ ~transproj.tracks[1].clips[2].is_midi
    /\ Len(transproj.tracks[1].clips[2].notes) = 1
    /\ Len(transproj.tracks[2].clips) = 1
    /\ Len(transproj.tracks[2].clips[1].notes) = 1
    /\ transproj.tracks[2].clips[1].is_midi
    /\ WrittenKeys(data) = <<60, 61, 60>>

-----------------------------------------------------------------------------
(* _build_flp_binary called twice on the same TransProj object: the first   *)
(* call leaves the tracks normalized, the second starts from them           *)

\* no rack; instrument racks of two plugins, of one plugin and of none; two
\* instrument racks; an effect rack or a drum rack before an instrument rack
RepeatRackLists ==
    LET fx == Rack(S_Reverb, None, <<Plugin(S_Reverb, S_Ableton, FALSE, None, <<>>)>>, <<>>)
        drum == Rack(S_Kick, Some(S_DrumGroupDevice), <<>>,
                     <<DrumPad(0, S_Kick, S_KickWav, 36, RatOne, RatZero)>>)
        inst == Rack(S_Lead, Some(S_InstrumentGroupDevice),
                     <<Plugin(S_Analog, S_Ableton, TRUE, None, <<>>),
                       Plugin(S_Reverb, S_Ableton, FALSE, None, <<>>)>>, <<>>)
        single == Rack(S_Lead, Some(S_InstrumentGroupDevice),
                       <<Plugin(S_Foo, S_Ableton, TRUE, None, <<>>)>>, <<>>)
        hollow == Rack(S_Lead, Some(S_InstrumentGroupDevice), <<>>, <<>>)
    IN  { <<>>, <<inst>>, <<single>>, <<hollow, inst>>, <<inst, single>>, <<single, inst>>,
          <<fx, inst>>, <<drum, inst>> }

RepeatTracks ==
    { Track(S_Lead, RatOne, RatZero, clips, instrument, effects, racks) :
        clips \in { <<>>,
                    <<Clip(S_A, RatZero, Rat(4, 1), <<NoteAt(1)>>, <<>>, TRUE, None)>>,
                    <<Clip(S_A, RatZero, Rat(4, 1), <<>>, S_KickWav, FALSE, None)>> },
        instrument \in {None, Some(Plugin(S_Foo, S_Ableton, TRUE, None, <<>>))},
        effects \in {<<>>, <<Plugin(S_Reverb, S_Ableton, FALSE, None, <<>>)>>},
        racks \in RepeatRackLists }

\* the project holds one of these tracks, alone or after a track without
\* devices; `input` keeps the tracks as they were handed over, the number of
\* calls that have returned, and what the first call returned and left behind
InitRepeat ==
    /\ pc = "build"
    /\ \E track \in RepeatTracks, alone \in BOOLEAN :
          /\ transproj = TransProj(S_Lead, Rat(120, 1), 96,
                 IF alone THEN <<track>>
                 ELSE <<Track(S_A, RatOne, RatZero, <<>>, None, <<>>, <<>>), track>>)
          /\ input = [calls |-> 0, tracks |-> transproj.tracks, first |-> <<>>,
                      left |-> <<>>]
    /\ self_ppq = DEFAULT_PPQ
    /\ data = <<>>
    /\ header = [channels |-> 0, ppq |-> 0]
    /\ idx = 0
    /\ track_idx = 0
    /\ clip_idx = 0
    /\ pattern_count = 0
    /\ playlist_items = <<>>
    /\ error = ""
    /\ output = <<>>
    /\ files = {}
    /\ filepath = <<>>
    /\ use_pyflp = FALSE
    /\ result = None
    /\ ptrack = None
    /\ clip_source = <<>>

\* _build_flp_binary(transproj) is called again on the same object, by the
\* same writer: data = bytearray() anew, the project as the first call left it
BuildAgain ==
    /\ pc = "done"
    /\ input.calls = 0
    /\ input' = [input EXCEPT !.calls = 1, !.first = output, !.left = transproj.tracks]
    /\ pc' = "build"
    /\ data' = <<>>
    /\ UNCHANGED <<transproj, header, idx, track_idx, clip_idx, pattern_count,
                   playlist_items, self_ppq, error, output, conv, parser>>

NextRepeat ==
    \/ BuildHeader
    \/ WriteChannel
    \/ StartPatterns
    \/ WritePattern
    \/ NextTrack
    \/ WritePlaylist
    \/ BuildAgain

SpecRepeat == InitRepeat /\ [][NextRepeat]_vars

\* C29: _normalize_track_plugins applied twice to a track gives the track it
\* gives applied once, before, during and after the builds; the second call
\* of _build_flp_binary on the same project leaves the tracks as the first
\* left them (no plugin of a rack is appended to the effects again) and
\* returns the bytes the first returned.
C29_Repeatable ==
    /\ \A t \in 1..Len(transproj.tracks) :
          _normalize_track_plugins(_normalize_track_plugins(transproj.tracks[t]))
              = _normalize_track_plugins(transproj.tracks[t])
    /\ \A t \in 1..Len(input.tracks) :
          _normalize_track_plugins(_normalize_track_plugins(input.tracks[t]))
              = _normalize_track_plugins(input.tracks[t])
    /\ input.calls = 1 /\ pc \in {"patterns", "done"} => transproj.tracks = input.left
    /\ input.calls = 1 /\ pc = "done" => output = input.first

\* the second call has returned on a track that came without instrument and
\* with an effect, and left the first call with the first plugin of its rack
\* as instrument and the second after the effect
C29_Witness ==
    /\ pc = "done"
    /\ input.calls = 1
    /\ Len(input.tracks) = 1
    /\ input.tracks[1].instrument = None
    /\ Len(input.tracks[1].effects) = 1
    /\ transproj.tracks[1].instrument = Some(Plugin(S_Analog, S_Ableton, TRUE, None, <<>>))
    /\ Len(transproj.tracks[1].effects) = 2
    /\ transproj.tracks[1].effects[2].name = S_Reverb
    /\ output = input.first
    /\ Len(output) > 0

-----------------------------------------------------------------------------
(* _write_channel over tracks that give it several sources of a plugin      *)
(* state at once: an instrument, drum racks, audio clips, MIDI clips        *)

\* no rack, two drum racks, a drum group without pads before a drum rack, an
\* effect rack before two drum racks
StateRackLists ==
    LET fx == Rack(S_Reverb, None, <<Plugin(S_Reverb, S_Ableton, FALSE, None, <<>>)>>, <<>>)
        drum == Rack(S_Kick, Some(S_DrumGroupDevice), <<>>,
                     <<DrumPad(0, S_Kick, S_KickWav, 36, RatOne, RatZero)>>)
        snare == Rack(S_Foo, Some(S_DrumGroupDevice), <<>>,
                      <<DrumPad(0, S_Foo, <<>>, 36, RatOne, RatZero),
                        DrumPad(1, S_Foo, S_KickWav, 37, RatOne, RatZero)>>)
        nopads == Rack(S_Kick, Some(S_DrumGroupDevice), <<>>, <<>>)
    IN  { <<>>, <<drum, snare>>, <<nopads, drum>>, <<fx, snare, drum>> }

StateTracks ==
    { Track(S_Lead, RatOne, RatZero, clips, instrument, <<>>, racks) :
        clips \in { <<>>,
                    <<Clip(S_A, RatZero, Rat(4, 1), <<NoteAt(1)>>, <<>>, TRUE, None)>>,
                    <<Clip(S_A, RatZero, Rat(4, 1), <<>>, S_KickWav, FALSE, None)>>,
                    <<Clip(S_A, RatZero, Rat(4, 1), <<NoteAt(1)>>, <<>>, TRUE, None),
                      Clip(S_A, RatZero, Rat(4, 1), <<>>, S_KickWav, FALSE, None)>> },
        instrument \in {None, Some(Plugin(S_Analog, S_Ableton, TRUE, None, <<>>))},
        racks \in StateRackLists }

\* `input` keeps the tracks as they were handed over
InitState ==
    /\ pc = "build"
    /\ \E tracks \in SeqsUpTo(StateTracks, MaxTracks) :
          /\ tracks # <<>>
          /\ transproj = TransProj(S_Lead, Rat(120, 1), 96, tracks)
          /\ input = tracks
    /\ self_ppq = DEFAULT_PPQ
    /\ data = <<>>
    /\ header = [channels |-> 0, ppq |-> 0]
    /\ idx = 0
    /\ track_idx = 0
    /\ clip_idx = 0
    /\ pattern_count = 0
    /\ playlist_items = <<>>
    /\ error = ""
    /\ output = <<>>
    /\ files = {}
    /\ filepath = <<>>
    /\ use_pyflp = FALSE
    /\ result = None
    /\ ptrack = None
    /\ clip_source = <<>>

SpecState == InitState /\ [][NextBuild]_vars

\* the events of the channel record that starts at position i: up to the
\* next channel start or the first pattern start
ChannelRecord(events, i) ==
    LET stops == {j \in (i + 1)..Len(events) :
                     events[j].tag \in {EV_NEW_CHAN, EV_NEW_PAT, EV_PLAYLIST_ITEMS}}
        last == IF stops = {} THEN Len(events)
                ELSE (CHOOSE j \in stops : \A k \in stops : j <= k) - 1
    IN  SubSeq(events, i, last)

\* C30: at every point of the build, every channel record of the stream holds
\* at most one plugin-state event (tag 205), and the payload of every
\* plugin-state event is a length prefix greater than 0 followed by that many
\* bytes.
C30_OnePluginState ==
    /\ \A i \in TagPositions(data, EV_NEW_CHAN) :
          Cardinality(TagPositions(ChannelRecord(data, i), EV_CHAN_PLUGIN)) <= 1
    /\ \A i \in TagPositions(data, EV_CHAN_PLUGIN) :
          /\ Len(AfterVarint(data[i].payload)) > 0
          /\ VarintValue(SubSeq(data[i].payload, 1, VarintLen(data[i].payload)))
                = Len(AfterVarint(data[i].payload))

\* a finished build of two channels: the first of a track with an instrument,
\* two drum racks and both kinds of clip, the second of a track with an effect
\* rack, two drum racks and a MIDI clip; each record has one plugin-state event
C30_Witness ==
    /\ pc = "done"
    /\ Len(input) = 2
    /\ input[1].instrument # None
    /\ Len(input[1].racks) = 2
    /\ Len(input[1].clips) = 2
    /\ input[2].instrument = None
    /\ Len(input[2].racks) = 3
    /\ Len(input[2].clips) = 1
    /\ Cardinality(TagPositions(data, EV_NEW_CHAN)) = 2
    /\ \A i \in TagPositions(data, EV_NEW_CHAN) :
          Cardinality(TagPositions(ChannelRecord(data, i), EV_CHAN_PLUGIN)) = 1

=============================================================================
